---- MODULE Spec2Model ----
(***************************************************************************)
(* Model of gihftp: the Merger (internal/merger/merger.go), the catalog    *)
(* client (internal/gihapi/client.go), the plain FTP delivery client       *)
(* (internal/ftp/client.go) and the orchestration in run() (main.go).      *)
(*                                                                         *)
(* Text is modelled as sequences of one-character strings, so that         *)
(* splitting, trimming, parsing and formatting are computed as the code    *)
(* computes them.  Go ints are 64 bit; every count of the model stays far  *)
(* below 2^63, so integer arithmetic is exact here.                        *)
(***************************************************************************)
EXTENDS Integers, Sequences, FiniteSets, TLC

(***************************************************************************)
(* Bounds of the model                                                     *)
(***************************************************************************)
\* largest number of lines handed to one Merger over all its AddContent calls
\* (SpecMerger)
MaxLines == 3
\* largest number of AddContent calls on one Merger (SpecMerger)
MaxCalls == 2

(***************************************************************************)
(* Text helpers: strings.Split, strings.TrimSpace, strconv.Atoi,           *)
(* fmt "%d", bufio.ScanLines                                               *)
(***************************************************************************)
Digits == <<"0", "1", "2", "3", "4", "5", "6", "7", "8", "9">>

IsDigit(c) == \E i \in 1..Len(Digits) : Digits[i] = c

DigitVal(c) == (CHOOSE i \in 1..Len(Digits) : Digits[i] = c) - 1

\* unicode.IsSpace restricted to the characters of the model
IsSpace(c) == c \in {" ", "\t", "\n", "\r"}

\* strings.Index for a one-character separator; 0 when absent
IndexOf(s, c) ==
  IF \E i \in 1..Len(s) : s[i] = c
  THEN CHOOSE i \in 1..Len(s) : s[i] = c /\ \A j \in 1..(i - 1) : s[j] # c
  ELSE 0

RECURSIVE Split(_, _)
\* strings.Split(s, sep): the fields of s around every sep, at least one field
Split(s, sep) ==
  LET i == IndexOf(s, sep)
  IN IF i = 0 THEN <<s>>
     ELSE <<SubSeq(s, 1, i - 1)>> \o Split(SubSeq(s, i + 1, Len(s)), sep)

RECURSIVE TrimLeft(_)
TrimLeft(s) ==
  IF Len(s) > 0 /\ IsSpace(s[1]) THEN TrimLeft(Tail(s)) ELSE s

RECURSIVE TrimRight(_)
TrimRight(s) ==
  IF Len(s) > 0 /\ IsSpace(s[Len(s)]) THEN TrimRight(SubSeq(s, 1, Len(s) - 1)) ELSE s

TrimSpaceNone(s) == s

\* strings.TrimSpace
TrimSpace(s) == TrimRight(TrimLeft(s))

RECURSIVE DigitsValue(_, _)
\* value of a run of decimal digits, most significant first
DigitsValue(s, acc) ==
  IF s = <<>> THEN acc ELSE DigitsValue(Tail(s), acc * 10 + DigitVal(s[1]))

\* strconv.Atoi: optional sign, then one or more decimal digits
Atoi(s) ==
  LET signed == Len(s) > 0 /\ s[1] \in {"+", "-"}
      body   == IF signed THEN Tail(s) ELSE s
      neg    == signed /\ s[1] = "-"
  IN IF body = <<>> \/ \E i \in 1..Len(body) : ~IsDigit(body[i])
     THEN [err |-> TRUE, val |-> 0]
     ELSE [err |-> FALSE,
           val |-> IF neg THEN 0 - DigitsValue(body, 0) ELSE DigitsValue(body, 0)]

RECURSIVE NatToText(_)
NatToText(n) ==
  IF n < 10 THEN <<Digits[n + 1]>>
  ELSE NatToText(n \div 10) \o <<Digits[(n % 10) + 1]>>

\* fmt verb %d
FormatInt(n) == IF n < 0 THEN <<"-">> \o NatToText(0 - n) ELSE NatToText(n)

DropCR(tok) ==
  IF Len(tok) > 0 /\ tok[Len(tok)] = "\r" THEN SubSeq(tok, 1, Len(tok) - 1) ELSE tok

\* the tokens bufio.Scanner yields with the default split function ScanLines
ScanLines(content) ==
  LET toks == Split(content, "\n")
      body == IF toks[Len(toks)] = <<>> THEN SubSeq(toks, 1, Len(toks) - 1) ELSE toks
  IN [i \in 1..Len(body) |-> DropCR(body[i])]

RECURSIVE JoinLines(_)
\* a payload: the given lines separated by newlines
JoinLines(lines) ==
  IF lines = <<>> THEN <<>>
  ELSE IF Len(lines) = 1 THEN lines[1]
  ELSE lines[1] \o <<"\n">> \o JoinLines(Tail(lines))

(***************************************************************************)
(* Input lines.  Every line of the pool carries, next to its text, what    *)
(* the line is by the format `domain|count`: kind "ok" is a well-formed    *)
(* line (exactly two fields, a non-negative integer count), the other      *)
(* kinds are the malformed shapes.  domain and count are the fields as     *)
(* written.                                                                *)
(***************************************************************************)
DomA == <<"a">>
DomB == <<"b">>

LineA5 == [text |-> <<"a", "|", "5">>, kind |-> "ok", domain |-> DomA, count |-> 5]
LineB5 == [text |-> <<"b", "|", "5">>, kind |-> "ok", domain |-> DomB, count |-> 5]
LineA12 == [text |-> <<"a", "|", "1", "2">>, kind |-> "ok", domain |-> DomA, count |-> 12]
LineThreeFields ==
  [text |-> <<"a", "|", "5", "|", "6">>, kind |-> "fields", domain |-> DomA, count |-> 5]
LineOneField == [text |-> <<"b">>, kind |-> "fields", domain |-> DomB, count |-> 0]
LineNonInteger ==
  [text |-> <<"a", "|", "x">>, kind |-> "noninteger", domain |-> DomA, count |-> 0]
LineNegative ==
  [text |-> <<"a", "|", "-", "3">>, kind |-> "negative", domain |-> DomA, count |-> 0 - 3]

WellFormedLines == {LineA5, LineB5, LineA12}
MalformedLines == {LineThreeFields, LineOneField, LineNonInteger, LineNegative}
LinePool == WellFormedLines \cup MalformedLines

\* all sequences over S of length at most n
SeqsUpTo(S, n) == UNION {[1..k -> S] : k \in 0..n}

\* the texts of a sequence of pool lines
Texts(lines) == [i \in 1..Len(lines) |-> lines[i].text]

(***************************************************************************)
(* Merger (internal/merger/merger.go).  m.data is a function whose domain  *)
(* is the set of keys present in the Go map.                               *)
(***************************************************************************)
NewData == <<>>

\* m.data[domain] (a missing key reads as 0)
Lookup(data, domain) == IF domain \in DOMAIN data THEN data[domain] ELSE 0

AddCountOverwrite(data, domain, count) ==
  IF domain \in DOMAIN data
  THEN [data EXCEPT ![domain] = count]
  ELSE data @@ (domain :> count)

\* m.data[domain] += count
AddCount(data, domain, count) ==
  IF domain \in DOMAIN data
  THEN [data EXCEPT ![domain] = @ + count]
  ELSE data @@ (domain :> count)

\* one iteration of the scan loop of AddContent on the loop state
\* st = [data, linesProcessed, linesSkipped]
MergeLine(st, line) ==
  LET parts    == Split(line, "|")
      domain   == TrimSpace(parts[1])
      countStr == TrimSpace(parts[2])
      parsed   == Atoi(countStr)
  IN IF line = <<>> THEN st
     ELSE IF Len(parts) # 2
       THEN [st EXCEPT !.linesSkipped = @ + 1]
     ELSE IF parsed.err
       THEN [st EXCEPT !.linesSkipped = @ + 1]
     ELSE [st EXCEPT !.data = AddCount(st.data, domain, parsed.val),
                     !.linesProcessed = @ + 1]

RECURSIVE MergeLines(_, _)
MergeLines(st, lines) ==
  IF lines = <<>> THEN st ELSE MergeLines(MergeLine(st, lines[1]), Tail(lines))

\* the largest token a bufio.Scanner with its default buffer yields
MaxScanTokenSize == 65536
\* an element of a text that stands for MaxScanTokenSize bytes "x" in a row
LongRun == "x*65536"

RECURSIVE ByteLen(_)
\* the number of bytes of a text
ByteLen(s) ==
  IF s = <<>> THEN 0
  ELSE (IF s[1] = LongRun THEN MaxScanTokenSize ELSE 1) + ByteLen(Tail(s))

\* the index of the first line the scanner cannot hold (it stops there with
\* bufio.ErrTooLong), 0 if it reads to the end
FirstTooLong(lines) ==
  IF \E i \in 1..Len(lines) : ByteLen(lines[i]) >= MaxScanTokenSize
  THEN CHOOSE i \in 1..Len(lines) :
         /\ ByteLen(lines[i]) >= MaxScanTokenSize
         /\ \A j \in 1..(i - 1) : ByteLen(lines[j]) < MaxScanTokenSize
  ELSE 0

\* the lines of a payload the scanner reads before it stops
ReadBefore(lines) ==
  LET k == FirstTooLong([i \in 1..Len(lines) |-> lines[i].text])
  IN IF k = 0 THEN lines ELSE SubSeq(lines, 1, k - 1)

AddContentRollback(data, content) ==
  LET all  == ScanLines(content)
      k    == FirstTooLong(all)
      read == IF k = 0 THEN all ELSE SubSeq(all, 1, k - 1)
      st   == MergeLines([data |-> data, linesProcessed |-> 0, linesSkipped |-> 0],
                         read)
  IN [data |-> IF k # 0 THEN data ELSE st.data, linesProcessed |-> st.linesProcessed,
      linesSkipped |-> st.linesSkipped, err |-> k # 0]

\* Merger.AddContent: the map after the call, the two counters it logs and
\* whether it returns the error of scanner.Err()
AddContent(data, content) ==
  LET all  == ScanLines(content)
      k    == FirstTooLong(all)
      read == IF k = 0 THEN all ELSE SubSeq(all, 1, k - 1)
      st   == MergeLines([data |-> data, linesProcessed |-> 0, linesSkipped |-> 0],
                         read)
  IN [data |-> st.data, linesProcessed |-> st.linesProcessed,
      linesSkipped |-> st.linesSkipped, err |-> k # 0]

ClearKeep(data) == data

\* Merger.Clear
Clear(data) == NewData

\* the slices the range over the map can build: every order of the entries
MapOrders(data) ==
  LET keys == DOMAIN data
      n    == Cardinality(keys)
  IN {[i \in 1..n |-> [Domain |-> f[i], Count |-> data[f[i]]]] :
        f \in {g \in [1..n -> keys] : \A i, j \in 1..n : g[i] = g[j] => i = j}}

LessAscending(x, y) == x.Count < y.Count

\* the comparison handed to sort.Slice
Less(x, y) == x.Count > y.Count

IsSortedBy(stats) ==
  \A i, j \in 1..Len(stats) : i < j => ~Less(stats[j], stats[i])

\* Merger.GetSortedStats: the map is ranged over in an unspecified order and
\* sort.Slice is not stable, so every descending arrangement can be returned
GetSortedStats(data) == {s \in MapOrders(data) : IsSortedBy(s)}

getTotalRequestsOfTop(stats) == IF stats = <<>> THEN 0 ELSE stats[1].Count

RECURSIVE getTotalRequests(_)
\* Merger.getTotalRequests
getTotalRequests(stats) ==
  IF stats = <<>> THEN 0 ELSE stats[1].Count + getTotalRequests(Tail(stats))

getTopDomainOrEmpty(stats) == IF Len(stats) > 0 THEN stats[1].Domain ELSE <<>>

\* Merger.getTopDomain
getTopDomain(stats) == IF Len(stats) > 0 THEN stats[1].Domain ELSE <<"N", "/", "A">>

getTopDomainHits(stats) == IF Len(stats) > 0 THEN stats[1].Count ELSE 0

\* Merger.GetStats on the snapshot its call of GetSortedStats returned
GetStats(stats) ==
  [unique_domains  |-> Len(stats),
   total_requests  |-> getTotalRequests(stats),
   top_domain      |-> getTopDomain(stats),
   top_domain_hits |-> getTopDomainHits(stats)]

RECURSIVE SerializeColon(_)
SerializeColon(stats) ==
  IF stats = <<>> THEN <<>>
  ELSE stats[1].Domain \o <<":">> \o FormatInt(stats[1].Count) \o <<"\n">>
       \o SerializeColon(Tail(stats))

\* the text SaveToFile writes for a snapshot: one "%s|%d\n" per entry
RECURSIVE Serialize(_)
Serialize(stats) ==
  IF stats = <<>> THEN <<>>
  ELSE stats[1].Domain \o <<"|">> \o FormatInt(stats[1].Count) \o <<"\n">>
       \o Serialize(Tail(stats))

\* what can happen to a SaveToFile call that writes the snapshot stats: it
\* succeeds, os.MkdirAll fails, os.Create fails, or the Fprintf of entry
\* written + 1 fails
SaveOutcomes(stats) ==
  {[failAt |-> f, written |-> 0] : f \in {"none", "mkdir", "create"}}
  \cup {[failAt |-> "write", written |-> k] : k \in 0..(Len(stats) - 1)}

\* Merger.SaveToFile: whether it returns an error, whether the file was
\* created, and the content of the file when it was
SaveToFile(stats, outcome) ==
  IF outcome.failAt \in {"mkdir", "create"}
  THEN [err |-> TRUE, created |-> FALSE, file |-> <<>>]
  ELSE IF outcome.failAt = "write"
  THEN [err |-> TRUE, created |-> TRUE,
        file |-> Serialize(SubSeq(stats, 1, outcome.written))]
  ELSE [err |-> FALSE, created |-> TRUE, file |-> Serialize(stats)]

(***************************************************************************)
(* Catalog client (internal/gihapi/client.go).  A response of the remote   *)
(* service is [transport, code, json, status, files] for the catalog and   *)
(* [transport, code, body] for a download; body is the sequence of pool    *)
(* lines the payload consists of.                                          *)
(***************************************************************************)
\* largest number of configured servers (cfg.GIHServers)
MaxServers == 2
\* largest number of files one catalog lists
MaxFiles == 2

StatusOK == 200

\* http.Client.Get and the status check of httpGet
httpGet(resp) ==
  IF resp.transport # "ok" THEN [err |-> TRUE]
  ELSE IF resp.code # StatusOK THEN [err |-> TRUE]
  ELSE [err |-> FALSE]

FetchLogFilesIgnoreStatus(resp) ==
  IF httpGet(resp).err
  THEN [err |-> TRUE, files |-> <<>>, reason |-> <<"API request failed">>]
  ELSE IF ~resp.json
  THEN [err |-> TRUE, files |-> <<>>, reason |-> <<"failed to parse JSON response">>]
  ELSE [err |-> FALSE, files |-> resp.files, reason |-> <<>>]

\* Client.FetchLogFiles; reason is the text of the error: a fixed part and,
\* for "API returned error: %s", the message of the response
FetchLogFiles(resp) ==
  IF httpGet(resp).err
  THEN [err |-> TRUE, files |-> <<>>, reason |-> <<"API request failed">>]
  ELSE IF ~resp.json
  THEN [err |-> TRUE, files |-> <<>>, reason |-> <<"failed to parse JSON response">>]
  ELSE IF ~resp.status
  THEN [err |-> TRUE, files |-> <<>>, reason |-> <<"API returned error", resp.message>>]
  ELSE [err |-> FALSE, files |-> resp.files, reason |-> <<>>]

\* Client.DownloadFile
DownloadFile(resp) ==
  IF httpGet(resp).err THEN [err |-> TRUE, content |-> <<>>]
  ELSE [err |-> FALSE, content |-> JoinLines(Texts(resp.body))]

LogFile(i) == [Filename |-> i, DownloadURL |-> i]

FileList(n) == [i \in 1..n |-> LogFile(i)]

CatalogFailures ==
  {[transport |-> "timeout", code |-> 0, json |-> FALSE, status |-> FALSE,
    message |-> "", files |-> <<>>],
   [transport |-> "ok", code |-> 500, json |-> FALSE, status |-> FALSE,
    message |-> "", files |-> <<>>],
   [transport |-> "ok", code |-> StatusOK, json |-> FALSE, status |-> FALSE,
    message |-> "", files |-> <<>>],
   [transport |-> "ok", code |-> StatusOK, json |-> TRUE, status |-> FALSE,
    message |-> "no logs for range", files |-> FileList(1)]}

CatalogResponses ==
  CatalogFailures \cup
  {[transport |-> "ok", code |-> StatusOK, json |-> TRUE, status |-> TRUE,
    message |-> "", files |-> FileList(n)] : n \in 0..MaxFiles}

DomX == <<"x", ".", "c", "o", "m">>
DomY == <<"y", ".", "c", "o", "m">>
DomZ == <<"z", ".", "c", "o", "m">>

LineX10 == [text |-> DomX \o <<"|", "1", "0">>, kind |-> "ok", domain |-> DomX, count |-> 10]
LineY3 == [text |-> DomY \o <<"|", "3">>, kind |-> "ok", domain |-> DomY, count |-> 3]
LineX7 == [text |-> DomX \o <<"|", "7">>, kind |-> "ok", domain |-> DomX, count |-> 7]
LineZ1 == [text |-> DomZ \o <<"|", "1">>, kind |-> "ok", domain |-> DomZ, count |-> 1]

PayloadA == <<LineX10, LineY3>>
PayloadB == <<LineX7, LineZ1>>
PayloadMixed == <<LineY3, LineNonInteger, LineZ1, LineThreeFields, LineZ1>>

PayloadPool == <<PayloadA, PayloadB, PayloadMixed>>

\* a line of 65536 bytes or more
LineTooLong ==
  [text |-> <<"a", "|", "5", LongRun>>, kind |-> "toolong", domain |-> DomA, count |-> 0]

\* a payload with a line too long for the scanner between two well-formed ones
PayloadCut == <<LineX10, LineTooLong, LineY3>>

\* the files, as <<server, file>>, for which the remote service can also
\* answer with PayloadCut
CutFiles == {<<1, 1>>}

\* the payload the remote service holds for file f of server h
Content(h, f) == PayloadPool[((h + f - 2) % Len(PayloadPool)) + 1]

\* the answers a download request for file f of server h can get
DownloadResponses(h, f) ==
  {[transport |-> "timeout", code |-> 0, body |-> <<>>],
   [transport |-> "ok", code |-> 404, body |-> <<>>],
   [transport |-> "ok", code |-> StatusOK, body |-> Content(h, f)]}
  \cup {[transport |-> "ok", code |-> StatusOK, body |-> PayloadCut] :
          x \in {<<h, f>>} \cap CutFiles}

(***************************************************************************)
(* Plain FTP delivery (internal/ftp/client.go).  env says which step of    *)
(* the upload fails ("none" for a successful upload) and whether the       *)
(* remote side accepts the MakeDir.  The result is the sequence of         *)
(* operations Upload performs and whether it returns an error.             *)
(***************************************************************************)
DeferredQuitOnSuccess(ops) ==
  IF \E k \in 1..Len(ops) : ops[k] = "Stor" THEN Append(ops, "Quit") ELSE ops

\* Upload: defer conn.Quit(), run when Upload returns after a successful Dial
DeferredQuit(ops) == Append(ops, "Quit")

FtpOutcomes ==
  {[failAt |-> f, mkdirOk |-> TRUE] : f \in {"dial", "login", "open", "stor", "none"}}
  \cup {[failAt |-> f, mkdirOk |-> FALSE] : f \in {"stor", "none"}}

FtpUploadRedial(env) ==
  IF env.failAt = "dial" THEN [ops |-> <<"DialFailed", "DialFailed">>, err |-> TRUE]
  ELSE IF env.failAt = "login"
    THEN [ops |-> <<"Dial", "LoginFailed", "Quit", "Dial", "LoginFailed", "Quit">>,
          err |-> TRUE]
  ELSE IF env.failAt = "open" THEN [ops |-> <<"Dial", "Login", "OpenFailed", "Quit">>, err |-> TRUE]
  ELSE [ops |-> <<"Dial", "Login", "Open",
                  IF env.mkdirOk THEN "MakeDir" ELSE "MakeDirFailed",
                  IF env.failAt = "stor" THEN "StorFailed" ELSE "Stor",
                  "Quit">>,
        err |-> env.failAt = "stor"]

\* ftp Client.Upload; the deferred Quit runs on every return after the Dial
FtpUpload(env) ==
  IF env.failAt = "dial" THEN [ops |-> <<"DialFailed">>, err |-> TRUE]
  ELSE IF env.failAt = "login"
    THEN [ops |-> DeferredQuit(<<"Dial", "LoginFailed">>), err |-> TRUE]
  ELSE IF env.failAt = "open"
    THEN [ops |-> DeferredQuit(<<"Dial", "Login", "OpenFailed">>), err |-> TRUE]
  ELSE [ops |-> DeferredQuit(<<"Dial", "Login", "Open",
                  IF env.mkdirOk THEN "MakeDir" ELSE "MakeDirFailed",
                  IF env.failAt = "stor" THEN "StorFailed" ELSE "Stor">>),
        err |-> env.failAt = "stor"]

(***************************************************************************)
(* sftp client (package sftp).  A host key is a name; the private key file *)
(* at keyPath is missing, an unencrypted key or an encrypted key; the      *)
(* variable SSH_KEY_PASSPHRASE is unset, the passphrase of the key or      *)
(* another text; $HOME/.ssh/known_hosts is missing, not parsable or a      *)
(* parsable file in which the host has no line or a line with one key.     *)
(***************************************************************************)
MaxAttempts == 2   \* calls of Upload by one process
MaxRekeys == 1     \* key exchanges after the first one on one connection

HostKeys == {"K1", "K2"}
NoKey == "none"
KeyFiles == {"missing", "plain", "encrypted"}
Passphrases == {"", "right", "wrong"}
KnownHostsFiles == {"missing", "corrupt", "ok"}
\* c.host with the port Upload dials
HostPort == "sftp.example:22"

DebugPassword == "Using password authentication"
WarnKey == "Failed to load SSH private key"
DebugKey == "Using key-based authentication"
WarnDisabled == "SSH host key verification is DISABLED - this is insecure!"
WarnFallback == "Failed to load known_hosts, falling back to fingerprint verification"
DebugKnownHosts == "Using known_hosts for host key verification"
WarnTofu == "SSH host not in known_hosts, trusting on first use (TOFU)"

\* Client.loadPrivateKey
loadPrivateKey(keyFile, passphrase) ==
  IF keyFile = "missing" THEN [err |-> "failed to read private key"]
  ELSE IF keyFile = "plain" THEN [err |-> "nil"]
  ELSE IF passphrase # ""
    THEN IF passphrase = "right" THEN [err |-> "nil"]
         ELSE [err |-> "failed to parse private key with passphrase"]
  ELSE [err |-> "failed to parse private key (try setting SSH_KEY_PASSPHRASE env var)"]

\* Client.getHostKeyCallback
getHostKeyCallback(knownHosts) ==
  IF knownHosts = "missing" THEN [err |-> "known_hosts file not found"]
  ELSE IF knownHosts = "corrupt" THEN [err |-> "failed to parse known_hosts"]
  ELSE [err |-> "nil"]

AuthMethodsKeyFirst(password, keyLoaded) ==
  (IF keyLoaded THEN <<"publickey">> ELSE <<>>)
  \o (IF password # "" THEN <<"password">> ELSE <<>>)

\* getSSHConfig: the authMethods slice
AuthMethods(password, keyLoaded) ==
  (IF password # "" THEN <<"password">> ELSE <<>>)
  \o (IF keyLoaded THEN <<"publickey">> ELSE <<>>)

HostKeyPolicySilent(insecureSkipVerify, knownHostsErr) ==
  IF insecureSkipVerify
  THEN [callback |-> "InsecureIgnoreHostKey", logs |-> <<WarnDisabled>>]
  ELSE IF knownHostsErr # "nil"
  THEN [callback |-> "trustOnFirstUse", logs |-> <<DebugKnownHosts>>]
  ELSE [callback |-> "known_hosts", logs |-> <<DebugKnownHosts>>]

\* getSSHConfig: the host key callback installed and what is logged about it
HostKeyPolicy(insecureSkipVerify, knownHostsErr) ==
  IF insecureSkipVerify
  THEN [callback |-> "InsecureIgnoreHostKey", logs |-> <<WarnDisabled>>]
  ELSE IF knownHostsErr # "nil"
  THEN [callback |-> "trustOnFirstUse", logs |-> <<WarnFallback>>]
  ELSE [callback |-> "known_hosts", logs |-> <<DebugKnownHosts>>]

AuthErrorOnKeyFailure(auth, keyErr) ==
  Len(auth) = 0 \/ keyErr \notin {"nil", "no key path"}

\* getSSHConfig: if len(authMethods) == 0; the error of loadPrivateKey is
\* only logged
AuthError(auth, keyErr) == Len(auth) = 0

\* Client.getSSHConfig
getSSHConfig(c, w) ==
  LET key == IF c.keyPath # "" THEN loadPrivateKey(w.keyFile, w.passphrase)
             ELSE [err |-> "no key path"]
      auth == AuthMethods(c.password, c.keyPath # "" /\ key.err = "nil")
      authLogs == (IF c.password # "" THEN <<DebugPassword>> ELSE <<>>)
                  \o (IF c.keyPath = "" THEN <<>>
                      ELSE IF key.err # "nil" THEN <<WarnKey>> ELSE <<DebugKey>>)
      hk == HostKeyPolicy(c.insecureSkipVerify, getHostKeyCallback(w.knownHosts).err)
  IN IF AuthError(auth, key.err)
     THEN [err |-> "no authentication method available", Auth |-> <<>>,
           HostKeyCallback |-> "", logs |-> authLogs]
     ELSE [err |-> "nil", Auth |-> auth, HostKeyCallback |-> hk.callback,
           logs |-> authLogs \o hk.logs]

\* the map trustOnFirstUse makes
NewTrustedKeys == <<>>

\* the closure trustOnFirstUse returns, on the map it closes over
trustOnFirstUse(trusted, hostname, key) ==
  IF hostname \in DOMAIN trusted
  THEN [err |-> trusted[hostname] # key, trusted |-> trusted, logs |-> <<>>]
  ELSE [err |-> FALSE, trusted |-> trusted @@ (hostname :> key), logs |-> <<WarnTofu>>]

KnownHostsCheckAcceptAbsent(entry, key) == [err |-> entry # "absent" /\ entry # key]

\* the callback knownhosts.New returns, on the key the file has for the host
KnownHostsCheck(entry, key) == [err |-> entry # key]

\* config.HostKeyCallback(hostname, remote, key)
HostKeyCallback(callback, trusted, entry, hostname, key) ==
  IF callback = "InsecureIgnoreHostKey"
  THEN [err |-> FALSE, trusted |-> trusted, logs |-> <<>>]
  ELSE IF callback = "trustOnFirstUse" THEN trustOnFirstUse(trusted, hostname, key)
  ELSE [err |-> KnownHostsCheck(entry, key).err, trusted |-> trusted, logs |-> <<>>]

MkdirAllExclusive(dir, denied) == [err |-> dir = "exists" \/ denied]

\* sftpClient.MkdirAll(remoteDir): nothing to do for a directory that exists
MkdirAll(dir, denied) == [err |-> dir = "absent" /\ denied]

(***************************************************************************)
(* State                                                                   *)
(***************************************************************************)
ExitSuccess == 0
ExitConfigError == 1
ExitFetchError == 2
ExitMergeError == 3
ExitUploadError == 4
ExitPartialError == 5
\* value of exitCode while run() has not returned
Running == 0 - 1

VARIABLES
  servers,       \* cfg.GIHServers
  cleanupAfter,  \* cfg.CleanupAfter
  pc,            \* position of run(): "fetch", "download", "save", "upload", "cleanup", "done"
  hostIdx,       \* index of the server the fetch loop of run() is at
  files,         \* the catalog of the current server (fetchFromServerWeekly)
  fileIdx,       \* index of the file the download loop is at
  successCount,  \* run(): successCount
  failureCount,  \* run(): failureCount
  data,          \* Merger.data
  stats,         \* the slice the last call of GetSortedStats returned
  report,        \* the map the last call of GetStats returned
  artifact,      \* content of the file written by SaveToFile, NoFile if none
  saved,         \* what the last SaveToFile call returned: "nil", "error", "" if none
  exitCode,      \* value run() returned, Running before
  catalogLog,    \* history: catalog requests issued, [host, err, count of files returned, reason, response]
  downloads,     \* history: download requests issued, [host, file, err, mergeErr]
  ftpLog,        \* history: operations of the delivery client
  removes,       \* history: number of os.Remove calls on the artifact
  ingested,      \* history: the lines AddContent has read since New or the last Clear, in order
  forgotten,     \* history: the number of lines handed to AddContent before the last Clear
  calls,         \* history: number of AddContent and Clear calls
  client,        \* the delivery client: transport and the fields of sftp Client
  world,         \* key file, SSH_KEY_PASSPHRASE, known_hosts and its line for the host
  remote,        \* the remote directory: "absent" or "exists"
  attempts,      \* number of Upload calls of the process
  upc,           \* position of the current Upload call
  sshConfig,     \* what getSSHConfig returned to the current Upload call
  trustedKeys,   \* the map of the closure trustOnFirstUse returned to it
  session,       \* the SSH connection, its key exchanges, the directory at the call
  logs,          \* lines the logger received during the current Upload call
  remoteOps,     \* remote operations of the current Upload call
  result,        \* what the last Upload call returned, "" while it runs
  firstKey,      \* history: first key a trust-on-first-use closure of the process accepted
  lastCheck,     \* history: last call of config.HostKeyCallback in the current Upload call
  fn,            \* the function applied to arg, "" before it is applied
  arg,           \* an input of a function taken on its own
  out            \* what the function returned for arg

vars == <<servers, cleanupAfter, pc, hostIdx, files, fileIdx, successCount,
          failureCount, data, stats, report, artifact, saved, exitCode,
          catalogLog, downloads, ftpLog, removes, ingested, forgotten, calls,
          client, world, remote, attempts, upc, sshConfig, trustedKeys, session,
          logs, remoteOps, result, firstKey, lastCheck, fn, arg, out>>

functionVars == <<fn, arg, out>>

programVars == <<servers, cleanupAfter, pc, hostIdx, files, fileIdx, successCount,
                 failureCount, data, stats, report, artifact, saved, exitCode,
                 catalogLog, downloads, ftpLog, removes, ingested, forgotten, calls>>

deliveryVars == <<client, world, remote, attempts, upc, sshConfig, trustedKeys,
                  session, logs, remoteOps, result, firstKey, lastCheck>>

runVars == <<servers, cleanupAfter, pc, hostIdx, files, fileIdx, successCount,
             failureCount, exitCode, catalogLog, downloads, ftpLog, removes>>

NoFile == <<"<no file>">>
\* report before the first GetStats call
NoReport ==
  [unique_domains |-> 0 - 1, total_requests |-> 0 - 1, top_domain |-> <<>>,
   top_domain_hits |-> 0 - 1]

NoClient == [transport |-> "none"]
NoWorld == [knownHosts |-> "none"]
NoConfig == [err |-> "", Auth |-> <<>>, HostKeyCallback |-> ""]
NoSession == [conn |-> "none", rekeys |-> 0, dirBefore |-> ""]
NoCheck == [callback |-> "", key |-> NoKey, err |-> FALSE]

NoArg == [kind |-> "none"]
NoOut == [kind |-> "none"]

\* no function is looked at on its own
NoApplication ==
  /\ fn = ""
  /\ arg = NoArg
  /\ out = NoOut

\* no Upload call of the sftp client is in progress or has been made
NoUpload ==
  /\ attempts = 0
  /\ upc = "idle"
  /\ sshConfig = NoConfig
  /\ trustedKeys = NewTrustedKeys
  /\ session = NoSession
  /\ logs = <<>>
  /\ remoteOps = <<>>
  /\ result = ""
  /\ firstKey = NoKey
  /\ lastCheck = NoCheck

\* merger.New and the locals of run() before the fetch loop
Init ==
  /\ servers \in {[i \in 1..n |-> i] : n \in 1..MaxServers}
  /\ cleanupAfter \in BOOLEAN
  /\ pc = "fetch"
  /\ hostIdx = 1
  /\ files = <<>>
  /\ fileIdx = 0
  /\ successCount = 0
  /\ failureCount = 0
  /\ data = NewData
  /\ stats = <<>>
  /\ report = NoReport
  /\ artifact = NoFile
  /\ saved = ""
  /\ exitCode = Running
  /\ catalogLog = <<>>
  /\ downloads = <<>>
  /\ ftpLog = <<>>
  /\ removes = 0
  /\ ingested = <<>>
  /\ forgotten = 0
  /\ calls = 0
  /\ client = NoClient
  /\ world = NoWorld
  /\ remote = "absent"
  /\ NoUpload
  /\ NoApplication

(***************************************************************************)
(* run() (main.go), one action per request or file-system operation        *)
(***************************************************************************)
NextHostAbort(i, n) == n + 1

\* the fetch loop of run() goes on with the next server after a failed one
NextHostAfterError(i, n) == i + 1

NextFileAbort(j, n) == n + 1

\* the download loop of fetchFromServerWeekly goes on after a failed file
NextFileAfterError(j, n) == j + 1

NoSuccessfulFetchNever(n) == FALSE

\* run(): if successCount == 0
NoSuccessfulFetch(n) == n = 0

FinalCodeAlwaysSuccess(failures) == ExitSuccess

FinalCodeAlwaysPartial(failures) == ExitPartialError

\* run(): the code returned after a successful delivery
FinalCode(failures) == IF failures > 0 THEN ExitPartialError ELSE ExitSuccess

UploadErrorCodeByShortfall(failures) ==
  IF failures > 0 THEN ExitPartialError ELSE ExitUploadError

\* run(): the code returned when uploadToFTP fails, whatever failureCount is
UploadErrorCode(failures) == ExitUploadError

RemoveCallsNone(cleanup) == 0

\* run(): os.Remove is called once when cfg.CleanupAfter is set; its error
\* is only logged
RemoveCalls(cleanup) == IF cleanup THEN 1 ELSE 0

StageAfterSaveCleanup(err) == IF err THEN "done" ELSE "cleanup"

\* run(): the return on an error of SaveToFile, else on to the upload
StageAfterSave(err) == IF err THEN "done" ELSE "upload"

StageAfterUploadCleanup(err) == "cleanup"

\* run(): the return on an error of uploadToFTP, else on to the cleanup
StageAfterUpload(err) == IF err THEN "done" ELSE "cleanup"

ReturnAfterDownloadsAnyFailed(errs) == \E k \in 1..Len(errs) : errs[k]

\* fetchFromServerWeekly: the error returned after the download loop, given
\* the errors of its iterations: return nil
ReturnAfterDownloads(errs) == FALSE

\* run(): fetchFromServerWeekly returned nil, successCount++
SourceDone ==
  /\ successCount' = successCount + 1
  /\ hostIdx' = hostIdx + 1
  /\ files' = <<>>
  /\ fileIdx' = 0
  /\ pc' = "fetch"
  /\ UNCHANGED failureCount

\* run(): fetchFromServerWeekly returned an error after its catalog request,
\* failureCount++
SourceFailed ==
  /\ failureCount' = failureCount + 1
  /\ hostIdx' = hostIdx + 1
  /\ files' = <<>>
  /\ fileIdx' = 0
  /\ pc' = "fetch"
  /\ UNCHANGED successCount

\* the errors of the downloads made from a server, in order
DownloadErrs(log, host) ==
  LET own == SelectSeq(log, LAMBDA e : e.host = host)
  IN [k \in 1..Len(own) |-> own[k].err \/ own[k].mergeErr]

\* run() calls fetchFromServerWeekly for the next server: FetchLogFiles
FetchCatalog ==
  /\ pc = "fetch"
  /\ hostIdx <= Len(servers)
  /\ \E resp \in CatalogResponses :
       LET r == FetchLogFiles(resp)
       IN /\ catalogLog' = Append(catalogLog,
                 [host |-> servers[hostIdx], err |-> r.err, count |-> Len(r.files),
                  reason |-> r.reason,
                  resp |-> [transport |-> resp.transport, code |-> resp.code,
                            json |-> resp.json, status |-> resp.status,
                            message |-> resp.message, listed |-> Len(resp.files)]])
          /\ IF r.err
             THEN /\ failureCount' = failureCount + 1
                  /\ hostIdx' = NextHostAfterError(hostIdx, Len(servers))
                  /\ UNCHANGED <<pc, files, fileIdx, successCount>>
             ELSE IF Len(r.files) = 0
             THEN SourceDone
             ELSE /\ files' = r.files
                  /\ fileIdx' = 1
                  /\ pc' = "download"
                  /\ UNCHANGED <<hostIdx, successCount, failureCount>>
  /\ UNCHANGED <<servers, cleanupAfter, data, stats, report, artifact, saved,
                 exitCode, downloads, ftpLog, removes, ingested, forgotten, calls>>
  /\ UNCHANGED deliveryVars
  /\ UNCHANGED functionVars

\* one iteration of the download loop: DownloadFile, then AddContent
DownloadOne ==
  /\ pc = "download"
  /\ \E resp \in DownloadResponses(servers[hostIdx], files[fileIdx].Filename) :
       LET d    == DownloadFile(resp)
           a    == AddContent(data, d.content)
           next == IF d.err THEN NextFileAfterError(fileIdx, Len(files))
                   ELSE IF a.err THEN NextFileAfterError(fileIdx, Len(files))
                   ELSE fileIdx + 1
       IN /\ downloads' = Append(downloads,
                 [host |-> servers[hostIdx], file |-> files[fileIdx].Filename,
                  err |-> d.err, mergeErr |-> ~d.err /\ a.err])
          /\ IF d.err
             THEN UNCHANGED <<data, ingested, forgotten, calls>>
             ELSE /\ data' = a.data
                  /\ ingested' = ingested \o ReadBefore(resp.body)
                  /\ calls' = calls + 1
                  /\ UNCHANGED forgotten
          /\ IF next > Len(files)
             THEN IF ReturnAfterDownloads(DownloadErrs(downloads', servers[hostIdx]))
                  THEN SourceFailed
                  ELSE SourceDone
             ELSE /\ fileIdx' = next
                  /\ UNCHANGED <<pc, hostIdx, files, successCount, failureCount>>
  /\ UNCHANGED <<servers, cleanupAfter, stats, report, artifact,
                 saved, exitCode, catalogLog, ftpLog, removes>>
  /\ UNCHANGED deliveryVars
  /\ UNCHANGED functionVars

\* after the fetch loop: the check of successCount, then m.GetStats()
CheckFetched ==
  /\ pc = "fetch"
  /\ hostIdx > Len(servers)
  /\ IF NoSuccessfulFetch(successCount)
     THEN /\ exitCode' = ExitFetchError
          /\ pc' = "done"
          /\ UNCHANGED <<stats, report>>
     ELSE /\ \E s \in GetSortedStats(data) :
               /\ stats' = s
               /\ report' = GetStats(s)
          /\ pc' = "save"
          /\ UNCHANGED exitCode
  /\ UNCHANGED <<servers, cleanupAfter, hostIdx, files, fileIdx, successCount,
                 failureCount, data, artifact, saved, catalogLog, downloads,
                 ftpLog, removes, ingested, forgotten, calls>>
  /\ UNCHANGED deliveryVars
  /\ UNCHANGED functionVars

\* m.SaveToFile(filename)
SaveArtifact ==
  /\ pc = "save"
  /\ \E s \in GetSortedStats(data) :
       \E outcome \in SaveOutcomes(s) :
         LET r == SaveToFile(s, outcome)
         IN /\ stats' = s
            /\ artifact' = IF r.created THEN r.file ELSE artifact
            /\ saved' = IF r.err THEN "error" ELSE "nil"
            /\ IF r.err
               THEN /\ exitCode' = ExitMergeError
                    /\ pc' = StageAfterSave(r.err)
               ELSE /\ pc' = StageAfterSave(r.err)
                    /\ UNCHANGED exitCode
  /\ UNCHANGED <<servers, cleanupAfter, hostIdx, files, fileIdx, successCount,
                 failureCount, data, report, catalogLog, downloads, ftpLog,
                 removes, ingested, forgotten, calls>>
  /\ UNCHANGED deliveryVars
  /\ UNCHANGED functionVars

\* uploadToFTP(cfg, outputPath)
UploadArtifact ==
  /\ pc = "upload"
  /\ \E env \in FtpOutcomes :
       LET r == FtpUpload(env)
       IN /\ ftpLog' = ftpLog \o r.ops
          /\ IF r.err
             THEN /\ exitCode' = UploadErrorCode(failureCount)
                  /\ pc' = StageAfterUpload(r.err)
             ELSE /\ pc' = StageAfterUpload(r.err)
                  /\ UNCHANGED exitCode
  /\ UNCHANGED <<servers, cleanupAfter, hostIdx, files, fileIdx, successCount,
                 failureCount, data, stats, report, artifact, saved, catalogLog,
                 downloads, removes, ingested, forgotten, calls>>
  /\ UNCHANGED deliveryVars
  /\ UNCHANGED functionVars

\* the optional os.Remove and the final classification
CleanupAndReturn ==
  /\ pc = "cleanup"
  /\ IF RemoveCalls(cleanupAfter) > 0
     THEN \E removed \in BOOLEAN :
            artifact' = IF removed THEN NoFile ELSE artifact
     ELSE UNCHANGED artifact
  /\ removes' = removes + RemoveCalls(cleanupAfter)
  /\ exitCode' = FinalCode(failureCount)
  /\ pc' = "done"
  /\ UNCHANGED <<servers, cleanupAfter, hostIdx, files, fileIdx, successCount,
                 failureCount, data, stats, report, saved, catalogLog, downloads,
                 ftpLog, ingested, forgotten, calls>>
  /\ UNCHANGED deliveryVars
  /\ UNCHANGED functionVars

Next ==
  \/ FetchCatalog
  \/ DownloadOne
  \/ CheckFetched
  \/ SaveArtifact
  \/ UploadArtifact
  \/ CleanupAndReturn

Spec == Init /\ [][Next]_vars

(***************************************************************************)
(* The Merger under arbitrary calls of its methods                         *)
(***************************************************************************)
InitMerger ==
  /\ servers = <<>>
  /\ cleanupAfter = FALSE
  /\ pc = "merger"
  /\ hostIdx = 0
  /\ files = <<>>
  /\ fileIdx = 0
  /\ successCount = 0
  /\ failureCount = 0
  /\ data = NewData
  /\ stats = <<>>
  /\ report = NoReport
  /\ artifact = NoFile
  /\ saved = ""
  /\ exitCode = Running
  /\ catalogLog = <<>>
  /\ downloads = <<>>
  /\ ftpLog = <<>>
  /\ removes = 0
  /\ ingested = <<>>
  /\ forgotten = 0
  /\ calls = 0
  /\ client = NoClient
  /\ world = NoWorld
  /\ remote = "absent"
  /\ NoUpload
  /\ NoApplication

\* m.AddContent(content) on a payload of pool lines
CallAddContent ==
  /\ calls < MaxCalls
  /\ saved = ""   \* as in run(), nothing is merged once the file is written
  /\ \E lines \in SeqsUpTo(LinePool, MaxLines - forgotten - Len(ingested)) :
       /\ data' = AddContent(data, JoinLines(Texts(lines))).data
       /\ ingested' = ingested \o lines
  /\ calls' = calls + 1
  /\ UNCHANGED <<stats, report, artifact, saved, forgotten>>
  /\ UNCHANGED runVars
  /\ UNCHANGED deliveryVars
  /\ UNCHANGED functionVars

\* m.GetSortedStats()
CallGetSortedStats ==
  /\ \E s \in GetSortedStats(data) : stats' = s
  /\ UNCHANGED <<data, report, artifact, saved, ingested, forgotten, calls>>
  /\ UNCHANGED runVars
  /\ UNCHANGED deliveryVars
  /\ UNCHANGED functionVars

\* m.GetStats()
CallGetStats ==
  /\ \E s \in GetSortedStats(data) :
       /\ stats' = s
       /\ report' = GetStats(s)
  /\ UNCHANGED <<data, artifact, saved, ingested, forgotten, calls>>
  /\ UNCHANGED runVars
  /\ UNCHANGED deliveryVars
  /\ UNCHANGED functionVars

\* m.SaveToFile(filename)
CallSaveToFile ==
  /\ \E s \in GetSortedStats(data) :
       \E outcome \in SaveOutcomes(s) :
         LET r == SaveToFile(s, outcome)
         IN /\ stats' = s
            /\ artifact' = IF r.created THEN r.file ELSE artifact
            /\ saved' = IF r.err THEN "error" ELSE "nil"
  /\ UNCHANGED <<data, report, ingested, forgotten, calls>>
  /\ UNCHANGED runVars
  /\ UNCHANGED deliveryVars
  /\ UNCHANGED functionVars

\* m.Clear()
CallClear ==
  /\ calls < MaxCalls
  /\ saved = ""
  /\ data' = Clear(data)
  /\ ingested' = <<>>
  /\ forgotten' = forgotten + Len(ingested)
  /\ calls' = calls + 1
  /\ UNCHANGED <<stats, report, artifact, saved>>
  /\ UNCHANGED runVars
  /\ UNCHANGED deliveryVars
  /\ UNCHANGED functionVars

NextMerger ==
  \/ CallClear
  \/ CallAddContent
  \/ CallGetSortedStats
  \/ CallGetStats
  \/ CallSaveToFile

SpecMerger == InitMerger /\ [][NextMerger]_vars

(***************************************************************************)
(* The delivery clients on their own: a process that holds one client and  *)
(* calls Upload up to MaxAttempts times.  The ssh transport calls          *)
(* config.HostKeyCallback with the key the server presents at every key    *)
(* exchange of a connection, the first one during ssh.Dial.                *)
(***************************************************************************)
DefaultInsecureSkipVerifyTrue == TRUE

\* Load: flag.Bool("insecure-skip-verify", false, ...)
DefaultInsecureSkipVerify == FALSE

\* the command line: the flag is absent, or given as true or as false
InsecureFlags == {"unset", "true", "false"}

\* Load: cfg.InsecureSkipVerify
LoadInsecureSkipVerify(flagValue) ==
  IF flagValue = "unset" THEN DefaultInsecureSkipVerify ELSE flagValue = "true"

Clients ==
  {[transport |-> "ftp", password |-> "secret", keyPath |-> "", insecureFlag |-> "unset",
    insecureSkipVerify |-> LoadInsecureSkipVerify("unset")]}
  \cup {[transport |-> "sftp", password |-> p, keyPath |-> k, insecureFlag |-> f,
          insecureSkipVerify |-> LoadInsecureSkipVerify(f)] :
          p \in {"", "secret"}, k \in {"", "id_rsa"}, f \in InsecureFlags}

\* the files and environment a client can meet; what it never reads is fixed
Worlds(c) ==
  {w \in [keyFile : KeyFiles, passphrase : Passphrases,
          knownHosts : KnownHostsFiles, hostEntry : {"absent"} \cup HostKeys] :
     /\ c.keyPath = "" => w.keyFile = "missing"
     /\ w.keyFile # "encrypted" => w.passphrase = ""
     /\ w.knownHosts # "ok" => w.hostEntry = "absent"
     /\ c.transport = "ftp" => w.knownHosts = "missing"}

\* sftp.NewClient / ftp.NewClient
InitDelivery ==
  /\ servers = <<>>
  /\ cleanupAfter = FALSE
  /\ pc = "delivery"
  /\ hostIdx = 0
  /\ files = <<>>
  /\ fileIdx = 0
  /\ successCount = 0
  /\ failureCount = 0
  /\ data = NewData
  /\ stats = <<>>
  /\ report = NoReport
  /\ artifact = NoFile
  /\ saved = ""
  /\ exitCode = Running
  /\ catalogLog = <<>>
  /\ downloads = <<>>
  /\ ftpLog = <<>>
  /\ removes = 0
  /\ ingested = <<>>
  /\ forgotten = 0
  /\ calls = 0
  /\ client \in Clients
  /\ world \in Worlds(client)
  /\ remote \in {"absent", "exists"}
  /\ NoUpload
  /\ NoApplication

\* Upload returns msg; the deferred Close calls run
Return(msg) ==
  /\ result' = msg
  /\ upc' = "idle"
  /\ session' = [session EXCEPT !.conn = IF session.conn = "none" THEN "none" ELSE "closed"]

\* the transport hands the key of a key exchange to config.HostKeyCallback
Verify(key) ==
  HostKeyCallback(sshConfig.HostKeyCallback, trustedKeys, world.hostEntry, HostPort, key)

\* the effects of one call of config.HostKeyCallback
Checked(key, cb) ==
  /\ trustedKeys' = cb.trusted
  /\ logs' = logs \o cb.logs
  /\ lastCheck' = [callback |-> sshConfig.HostKeyCallback, key |-> key, err |-> cb.err]
  /\ firstKey' = IF firstKey = NoKey /\ sshConfig.HostKeyCallback = "trustOnFirstUse" /\ ~cb.err
                 THEN key ELSE firstKey

AfterConfigDial(err) == "dial"

\* sftp Upload: the return on an error of getSSHConfig, else on to ssh.Dial
AfterConfig(err) == IF err # "nil" THEN "idle" ELSE "dial"

\* sftp Upload: c.getSSHConfig()
StartUpload ==
  /\ client.transport = "sftp"
  /\ upc = "idle"
  /\ attempts < MaxAttempts
  /\ LET cfg == getSSHConfig(client, world)
     IN /\ sshConfig' = [err |-> cfg.err, Auth |-> cfg.Auth,
                         HostKeyCallback |-> cfg.HostKeyCallback]
        /\ logs' = cfg.logs
        /\ result' = IF cfg.err # "nil" THEN "failed to create SSH config" ELSE ""
        /\ upc' = AfterConfig(cfg.err)
  /\ attempts' = attempts + 1
  /\ trustedKeys' = NewTrustedKeys
  /\ session' = [conn |-> "none", rekeys |-> 0, dirBefore |-> remote]
  /\ remoteOps' = <<>>
  /\ lastCheck' = NoCheck
  /\ UNCHANGED <<client, world, remote, firstKey>>
  /\ UNCHANGED programVars
  /\ UNCHANGED functionVars

\* sftp Upload: ssh.Dial
Dial ==
  /\ upc = "dial"
  /\ \E net \in {"ok", "refused", "auth rejected"} : \E key \in HostKeys :
       IF net = "refused"
       THEN /\ remoteOps' = Append(remoteOps, "DialFailed")
            /\ Return("SSH connection failed")
            /\ UNCHANGED <<trustedKeys, logs, lastCheck, firstKey>>
       ELSE LET cb == Verify(key)
            IN /\ Checked(key, cb)
               /\ IF cb.err \/ net = "auth rejected"
                  THEN /\ remoteOps' = Append(remoteOps, "DialFailed")
                       /\ Return("SSH connection failed")
                  ELSE /\ remoteOps' = Append(remoteOps, "Dial")
                       /\ session' = [session EXCEPT !.conn = "up"]
                       /\ upc' = "newclient"
                       /\ UNCHANGED result
  /\ UNCHANGED <<client, world, remote, attempts, sshConfig>>
  /\ UNCHANGED programVars
  /\ UNCHANGED functionVars

\* a later key exchange on the connection of the current Upload call
Rekey ==
  /\ upc \in {"newclient", "open", "mkdir", "create", "copy"}
  /\ session.conn = "up"
  /\ session.rekeys < MaxRekeys
  /\ \E key \in HostKeys :
       LET cb == Verify(key)
       IN /\ Checked(key, cb)
          /\ session' = [session EXCEPT !.rekeys = @ + 1,
                                        !.conn = IF cb.err THEN "lost" ELSE "up"]
  /\ UNCHANGED <<client, world, remote, attempts, upc, sshConfig, remoteOps, result>>
  /\ UNCHANGED programVars
  /\ UNCHANGED functionVars

\* sftp Upload: sftp.NewClient(sshClient)
NewSftpClient ==
  /\ upc = "newclient"
  /\ \E ok \in BOOLEAN :
       IF ok /\ session.conn = "up"
       THEN upc' = "open" /\ UNCHANGED <<result, session>>
       ELSE Return("SFTP client creation failed")
  /\ UNCHANGED <<client, world, remote, attempts, sshConfig, trustedKeys, logs,
                 remoteOps, firstKey, lastCheck>>
  /\ UNCHANGED programVars
  /\ UNCHANGED functionVars

\* sftp Upload: os.Open(localPath) and localFile.Stat()
OpenLocal ==
  /\ upc = "open"
  /\ \E r \in {"ok", "failed to open local file", "failed to stat local file"} :
       IF r = "ok"
       THEN upc' = "mkdir" /\ UNCHANGED <<result, session>>
       ELSE Return(r)
  /\ UNCHANGED <<client, world, remote, attempts, sshConfig, trustedKeys, logs,
                 remoteOps, firstKey, lastCheck>>
  /\ UNCHANGED programVars
  /\ UNCHANGED functionVars

\* sftp Upload: sftpClient.MkdirAll(remoteDir)
EnsureRemoteDir ==
  /\ upc = "mkdir"
  /\ \E denied \in BOOLEAN :
       IF session.conn = "up" /\ ~MkdirAll(remote, denied).err
       THEN /\ remote' = "exists"
            /\ remoteOps' = Append(remoteOps, "MkdirAll")
            /\ upc' = "create"
            /\ UNCHANGED <<result, session>>
       ELSE /\ remoteOps' = Append(remoteOps, "MkdirAllFailed")
            /\ Return("failed to create remote directory")
            /\ UNCHANGED remote
  /\ UNCHANGED <<client, world, attempts, sshConfig, trustedKeys, logs, firstKey,
                 lastCheck>>
  /\ UNCHANGED programVars
  /\ UNCHANGED functionVars

\* sftp Upload: sftpClient.Create(remotePath)
CreateRemote ==
  /\ upc = "create"
  /\ \E ok \in BOOLEAN :
       IF ok /\ session.conn = "up"
       THEN /\ remoteOps' = Append(remoteOps, "Create")
            /\ upc' = "copy"
            /\ UNCHANGED <<result, session>>
       ELSE /\ remoteOps' = Append(remoteOps, "CreateFailed")
            /\ Return("failed to create remote file")
  /\ UNCHANGED <<client, world, remote, attempts, sshConfig, trustedKeys, logs,
                 firstKey, lastCheck>>
  /\ UNCHANGED programVars
  /\ UNCHANGED functionVars

\* sftp Upload: io.Copy(remoteFile, localFile) and the return
CopyFile ==
  /\ upc = "copy"
  /\ \E ok \in BOOLEAN :
       IF ok /\ session.conn = "up"
       THEN remoteOps' = Append(remoteOps, "Copy") /\ Return("nil")
       ELSE remoteOps' = Append(remoteOps, "CopyFailed") /\ Return("file upload failed")
  /\ UNCHANGED <<client, world, remote, attempts, sshConfig, trustedKeys, logs,
                 firstKey, lastCheck>>
  /\ UNCHANGED programVars
  /\ UNCHANGED functionVars

\* ftp Upload; MakeDir is refused for a directory that exists
FtpDeliver ==
  /\ client.transport = "ftp"
  /\ upc = "idle"
  /\ attempts < MaxAttempts
  /\ \E env \in FtpOutcomes :
       /\ remote = "exists" => ~env.mkdirOk
       /\ LET r == FtpUpload(env)
          IN /\ remoteOps' = r.ops
             /\ result' = IF r.err THEN "ftp upload failed" ELSE "nil"
             /\ remote' = IF \E i \in 1..Len(r.ops) : r.ops[i] = "MakeDir"
                          THEN "exists" ELSE remote
  /\ attempts' = attempts + 1
  /\ session' = [conn |-> "closed", rekeys |-> 0, dirBefore |-> remote]
  /\ UNCHANGED <<client, world, upc, sshConfig, trustedKeys, logs, firstKey, lastCheck>>
  /\ UNCHANGED programVars
  /\ UNCHANGED functionVars

NextDelivery ==
  \/ StartUpload
  \/ Dial
  \/ Rekey
  \/ NewSftpClient
  \/ OpenLocal
  \/ EnsureRemoteDir
  \/ CreateRemote
  \/ CopyFile
  \/ FtpDeliver

SpecDelivery == InitDelivery /\ [][NextDelivery]_vars

(***************************************************************************)
(* Functions taken on their own: normalizeFTPHost (main.go) on the hosts   *)
(* cfg.FTPHost can name, and AddContent on a fresh Merger for payloads     *)
(* with the line shapes the scan loop tells apart.                         *)
(***************************************************************************)
\* largest number of lines of a payload (SpecFunctions)
MaxPayloadLines == 3

\* strings.Contains(s, c) for a one-character c
Contains(s, c) == \E i \in 1..Len(s) : s[i] = c

\* normalizeFTPHost
normalizeFTPHost(host) ==
  IF ~Contains(host, ":") THEN host \o <<":", "2", "1">> ELSE host

\* a host name, an IPv4 address, an IPv6 address
HostNames == {<<"f", "t", "p", ".", "x">>, <<"1", "0", ".", "0", ".", "0", ".", "7">>,
              <<":", ":", "1">>}
PortTexts == {<<"2", "1">>, <<"2", "1", "2", "1">>}

\* host:port as net.JoinHostPort writes it: an address with colons in brackets
JoinHostPort(host, port) ==
  IF Contains(host, ":") THEN <<"[">> \o host \o <<"]", ":">> \o port
  ELSE host \o <<":">> \o port

\* the values of cfg.FTPHost: a host without a port (port <<>>) or with one
HostInputs ==
  {[kind |-> "host", text |-> h, host |-> h, port |-> <<>>] : h \in HostNames}
  \cup {[kind |-> "host", text |-> JoinHostPort(h, p), host |-> h, port |-> p] :
          h \in HostNames, p \in PortTexts}

DomUpperA == <<"A">>

LineASpaced ==
  [text |-> <<"a", " ", "|", " ", "5">>, kind |-> "ok", domain |-> DomA, count |-> 5]
LinePadded ==
  [text |-> <<" ", "b", "|", "7", " ">>, kind |-> "ok", domain |-> DomB, count |-> 7]
LineUpperA5 ==
  [text |-> <<"A", "|", "5">>, kind |-> "ok", domain |-> DomUpperA, count |-> 5]
LineEmpty == [text |-> <<>>, kind |-> "empty", domain |-> <<>>, count |-> 0]
LineBlank == [text |-> <<" ">>, kind |-> "fields", domain |-> <<>>, count |-> 0]
ParsePool ==
  {LineA5, LineASpaced, LinePadded, LineUpperA5, LineEmpty, LineBlank,
   LineThreeFields, LineOneField, LineNonInteger, LineTooLong}

PayloadInputs ==
  {[kind |-> "payload", lines |-> l] : l \in SeqsUpTo(ParsePool, MaxPayloadLines)}

\* Load: the default of the flag gih-api-port
DefaultGIHAPIPort == <<"2035">>

\* flag.Parse: the value of a string flag, its default when it is not given
FlagValue(flagArg, default) == IF flagArg.given THEN flagArg.value ELSE default

\* iniCfg.Section("").Key(k).String(): "" without the key
IniValue(ini, k) == IF k \in DOMAIN ini.keys THEN ini.keys[k] ELSE <<>>

\* Load: cfg.FTPPassword
LoadFTPPassword(in) ==
  LET envPass     == in.env
      ftpPassword == FlagValue(in.flagPassword, <<>>)
  IN IF envPass # <<>> THEN envPass
     ELSE IF ftpPassword # <<>> THEN ftpPassword
     ELSE IF in.ini.loaded THEN IniValue(in.ini, "ftppassword")
     ELSE <<>>

\* Load: cfg.GIHAPIPort
LoadGIHAPIPort(in) ==
  LET gihAPIPort == FlagValue(in.flagPort, DefaultGIHAPIPort)
  IN IF gihAPIPort # DefaultGIHAPIPort THEN gihAPIPort
     ELSE IF in.ini.loaded
          THEN IF IniValue(in.ini, "gihapiport") # <<>>
               THEN IniValue(in.ini, "gihapiport")
               ELSE DefaultGIHAPIPort
     ELSE DefaultGIHAPIPort

\* Load, for the two settings looked at
Load(in) ==
  [kind |-> "config", FTPPassword |-> LoadFTPPassword(in),
   GIHAPIPort |-> LoadGIHAPIPort(in)]

\* a string flag on the command line: absent, or given with a value
FlagArgs(values) ==
  {[given |-> FALSE, value |-> <<>>]} \cup {[given |-> TRUE, value |-> v] : v \in values}

\* the config file: not loaded, or loaded with some of the two keys
IniFiles ==
  {[loaded |-> FALSE, keys |-> <<>>]}
  \cup {[loaded |-> TRUE, keys |-> k] :
          k \in {<<>>,
                  [x \in {"ftppassword"} |-> <<"pw-file">>],
                  [x \in {"gihapiport"} |-> <<"3000">>],
                  [x \in {"ftppassword", "gihapiport"} |->
                     IF x = "ftppassword" THEN <<"pw-file">> ELSE <<"3000">>]}}

\* command line, environment and config file of a start of the program
ConfigInputs ==
  {[kind |-> "config", flagPassword |-> fp, env |-> e, ini |-> i, flagPort |-> fq] :
     fp \in FlagArgs({<<"pw-flag">>}), e \in {<<>>, <<"pw-env">>}, i \in IniFiles,
     fq \in FlagArgs({<<"2035">>, <<"8080">>})}

(***************************************************************************)
(* Date ranges (getLastWeekRange of main.go, GetLastWeekDates and          *)
(* GetDateRange of gihapi).  A time is a civil date with the minute of the *)
(* day in the zone of the process, [y, m, d, min].  A zone is the set of   *)
(* dates whose hour from 00:00 to 01:00 is skipped by a switch to summer   *)
(* time.  time.Date resolves a skipped time to a time correct in one of    *)
(* the two offsets of the switch, without saying which; gap is that        *)
(* choice.                                                                 *)
(***************************************************************************)
IsLeap(y) == (y % 4 = 0 /\ y % 100 # 0) \/ y % 400 = 0

DaysIn(y, m) ==
  IF m = 2 THEN (IF IsLeap(y) THEN 29 ELSE 28)
  ELSE IF m \in {4, 6, 9, 11} THEN 30
  ELSE 31

RECURSIVE NormalizeDay(_, _, _)
\* time.Date: a day outside the month is carried into the months around it
NormalizeDay(y, m, d) ==
  IF d < 1
  THEN LET py == IF m = 1 THEN y - 1 ELSE y
           pm == IF m = 1 THEN 12 ELSE m - 1
       IN NormalizeDay(py, pm, d + DaysIn(py, pm))
  ELSE IF d > DaysIn(y, m)
  THEN NormalizeDay(IF m = 12 THEN y + 1 ELSE y, IF m = 12 THEN 1 ELSE m + 1,
                    d - DaysIn(y, m))
  ELSE [y |-> y, m |-> m, d |-> d]

\* time.Date in a zone: a time of a skipped hour comes out one hour later by
\* the offset before the switch read after it, or one hour earlier by the
\* offset after the switch read before it
Date(y, m, d, min, zone, gap) ==
  LET c == NormalizeDay(y, m, d)
  IN IF c \in zone /\ min < 60
     THEN IF gap = "later"
          THEN [y |-> c.y, m |-> c.m, d |-> c.d, min |-> min + 60]
          ELSE LET b == NormalizeDay(c.y, c.m, c.d - 1)
               IN [y |-> b.y, m |-> b.m, d |-> b.d, min |-> min + 23 * 60]
     ELSE [y |-> c.y, m |-> c.m, d |-> c.d, min |-> min]

\* Time.AddDate(0, 0, days)
AddDate(t, days, zone, gap) == Date(t.y, t.m, t.d + days, t.min, zone, gap)

\* decimal text of n padded with zeros to the width w
Pad(n, w) ==
  LET txt == NatToText(n)
  IN [i \in 1..(w - Len(txt)) |-> "0"] \o txt

\* Time.Format("20060102")
Format(t) == Pad(t.y, 4) \o Pad(t.m, 2) \o Pad(t.d, 2)

\* getLastWeekRange of main.go
getLastWeekRange(now, zone, gap) ==
  LET yesterday == AddDate(now, -1, zone, gap)
      weekAgo   == AddDate(now, -7, zone, gap)
  IN [startDate |-> Format(weekAgo), endDate |-> Format(yesterday)]

\* gihapi.GetLastWeekDates
GetLastWeekDates(now, zone, gap) ==
  LET yesterday == AddDate(now, -1, zone, gap)
      weekAgo   == AddDate(yesterday, -6, zone, gap)
  IN [startDate |-> Format(weekAgo), endDate |-> Format(yesterday)]

\* gihapi.GetDateRange
GetDateRange(daysBack, now, zone, gap) ==
  LET days      == IF daysBack <= 0 THEN 7 ELSE daysBack
      yesterday == AddDate(now, -1, zone, gap)
      startDay  == AddDate(yesterday, 0 - (days - 1), zone, gap)
  IN [startDate |-> Format(startDay), endDate |-> Format(yesterday)]

\* no switch to summer time at midnight (UTC), and the switch of
\* America/Havana on 2025-03-09, 00:00 to 01:00
ZoneUTC == {}
ZoneHavana == {[y |-> 2025, m |-> 3, d |-> 9]}

\* the values of daysBack looked at
DaysBackValues == {-1, 0, 1, 2, 7, 31}

\* the current times looked at: around the ends of months and years, a leap
\* day, and the days after the switch of ZoneHavana, early and at noon
ClockInputs ==
  {[kind |-> "clock", now |-> [y |-> c[1], m |-> c[2], d |-> c[3], min |-> mn],
    zone |-> z, gap |-> g, daysBack |-> n] :
     c \in {<<2025, 1, 1>>, <<2025, 1, 5>>, <<2024, 3, 1>>, <<2025, 3, 1>>,
            <<2025, 3, 10>>, <<2025, 3, 16>>, <<2025, 7, 31>>},
     mn \in {30, 720}, z \in {ZoneUTC, ZoneHavana}, g \in {"later", "earlier"},
     n \in DaysBackValues}

InitFunctions ==
  /\ servers = <<>>
  /\ cleanupAfter = FALSE
  /\ pc = "functions"
  /\ hostIdx = 0
  /\ files = <<>>
  /\ fileIdx = 0
  /\ successCount = 0
  /\ failureCount = 0
  /\ data = NewData
  /\ stats = <<>>
  /\ report = NoReport
  /\ artifact = NoFile
  /\ saved = ""
  /\ exitCode = Running
  /\ catalogLog = <<>>
  /\ downloads = <<>>
  /\ ftpLog = <<>>
  /\ removes = 0
  /\ ingested = <<>>
  /\ forgotten = 0
  /\ calls = 0
  /\ client = NoClient
  /\ world = NoWorld
  /\ remote = "absent"
  /\ NoUpload
  /\ fn = ""
  /\ arg \in HostInputs \cup PayloadInputs \cup ConfigInputs \cup ClockInputs
  /\ out = NoOut

\* normalizeFTPHost(cfg.FTPHost) in uploadToFTP
ApplyNormalizeFTPHost ==
  /\ fn = ""
  /\ arg.kind = "host"
  /\ fn' = "normalizeFTPHost"
  /\ out' = normalizeFTPHost(arg.text)
  /\ UNCHANGED arg
  /\ UNCHANGED programVars
  /\ UNCHANGED deliveryVars

\* config.Load()
ApplyLoad ==
  /\ fn = ""
  /\ arg.kind = "config"
  /\ fn' = "Load"
  /\ out' = Load(arg)
  /\ UNCHANGED arg
  /\ UNCHANGED programVars
  /\ UNCHANGED deliveryVars

\* the three date range functions at the same time.Now()
ApplyDateRange ==
  /\ fn = ""
  /\ arg.kind = "clock"
  /\ fn' = "DateRange"
  /\ out' = [kind |-> "ranges",
             getLastWeekRange |-> getLastWeekRange(arg.now, arg.zone, arg.gap),
             GetLastWeekDates |-> GetLastWeekDates(arg.now, arg.zone, arg.gap),
             GetDateRange7 |-> GetDateRange(7, arg.now, arg.zone, arg.gap),
             GetDateRange |-> GetDateRange(arg.daysBack, arg.now, arg.zone, arg.gap)]
  /\ UNCHANGED arg
  /\ UNCHANGED programVars
  /\ UNCHANGED deliveryVars

\* merger.New(workDir).AddContent(payload)
ApplyAddContent ==
  /\ fn = ""
  /\ arg.kind = "payload"
  /\ fn' = "AddContent"
  /\ out' = AddContent(NewData, JoinLines(Texts(arg.lines)))
  /\ UNCHANGED arg
  /\ UNCHANGED programVars
  /\ UNCHANGED deliveryVars

NextFunctions ==
  \/ ApplyNormalizeFTPHost
  \/ ApplyLoad
  \/ ApplyDateRange
  \/ ApplyAddContent

SpecFunctions == InitFunctions /\ [][NextFunctions]_vars

(***************************************************************************)
(* Properties                                                              *)
(***************************************************************************)
AllDomains == {DomA, DomB, DomX, DomY, DomZ}

RECURSIVE WellFormedSum(_, _)
\* the sum of the counts of the well-formed lines of lines that name domain d
WellFormedSum(lines, d) ==
  IF lines = <<>> THEN 0
  ELSE (IF lines[1].kind = "ok" /\ lines[1].domain = d THEN lines[1].count ELSE 0)
       + WellFormedSum(Tail(lines), d)

RECURSIVE WellFormedTotal(_)
WellFormedTotal(lines) ==
  IF lines = <<>> THEN 0
  ELSE (IF lines[1].kind = "ok" THEN lines[1].count ELSE 0)
       + WellFormedTotal(Tail(lines))

AllWellFormed(lines) == \A i \in 1..Len(lines) : lines[i].kind = "ok"

\* the keys of the map after the first k ingested lines
KeysAfter(k) ==
  DOMAIN MergeLines([data |-> NewData, linesProcessed |-> 0, linesSkipped |-> 0],
                    Texts(SubSeq(ingested, 1, k))).data

\* the position of the line that first brought key d into the map
FirstIngested(d) ==
  CHOOSE k \in 1..Len(ingested) : d \in KeysAfter(k) /\ d \notin KeysAfter(k - 1)

Occurs(log, op) == \E i \in 1..Len(log) : log[i] = op

Count(log, ops) == Cardinality({i \in 1..Len(log) : log[i] \in ops})

SomeSourceSucceeded == \E i \in 1..Len(catalogLog) : ~catalogLog[i].err
SomeSourceFailed == \E i \in 1..Len(catalogLog) : catalogLog[i].err
EverySourceFailed == \A i \in 1..Len(catalogLog) : catalogLog[i].err
Delivered == Occurs(ftpLog, "Stor")
UploadFailed ==
  \E op \in {"DialFailed", "LoginFailed", "OpenFailed", "StorFailed"} : Occurs(ftpLog, op)

\* C1: when only well-formed lines were ingested, in whatever order and
\* split over whatever payloads, every domain's count is the exact sum of
\* the counts of its lines, and the map holds exactly the domains ingested.
C1_SumOfWellFormedLines ==
  AllWellFormed(ingested) =>
    /\ \A d \in AllDomains : Lookup(data, d) = WellFormedSum(ingested, d)
    /\ DOMAIN data = {ingested[i].domain : i \in 1..Len(ingested)}

C1_Witness ==
  /\ calls = 2
  /\ ingested = <<LineA12, LineB5, LineA5>>
  /\ Lookup(data, DomA) = 17
  /\ Lookup(data, DomB) = 5

\* C2: malformed lines (wrong field count, non-integer count, negative
\* count) change no count: every domain's count is the sum of the counts of
\* its well-formed lines only, whatever malformed lines came with them.
C2_MalformedLinesRejected ==
  \A d \in AllDomains : Lookup(data, d) = WellFormedSum(ingested, d)

\* C3: in every slice GetSortedStats returned counts are descending and two
\* domains with equal counts stand in the order of their first ingestion.
C3_StableTieBreak ==
  \A i, j \in 1..Len(stats) :
    i < j =>
      /\ stats[i].Count >= stats[j].Count
      /\ stats[i].Count = stats[j].Count =>
           FirstIngested(stats[i].Domain) < FirstIngested(stats[j].Domain)

\* C4: as long as no catalog fetch has succeeded no artifact is saved and no
\* delivery operation is performed, and such a run returns ExitFetchError.
C4_NoSuccessNoDelivery ==
  EverySourceFailed =>
    /\ artifact = NoFile
    /\ ftpLog = <<>>
    /\ exitCode \in {Running, ExitFetchError}
    /\ pc = "done" => exitCode = ExitFetchError /\ ExitFetchError = 2

C4_Witness ==
  /\ pc = "done"
  /\ Len(servers) = 2
  /\ Len(catalogLog) = 2
  /\ EverySourceFailed
  /\ exitCode = ExitFetchError

\* C5: a finished run with a succeeded source, a failed source and a
\* successful delivery returns ExitPartialError = 5; a finished run with no
\* succeeded source returns 2 and one with only succeeded sources and a
\* successful delivery returns 0.
C5_PartialSuccess ==
  pc = "done" =>
    /\ SomeSourceSucceeded /\ SomeSourceFailed /\ Delivered =>
         exitCode = ExitPartialError /\ ExitPartialError = 5
    /\ ~SomeSourceSucceeded => exitCode = 2
    /\ ~SomeSourceFailed /\ Delivered => exitCode = 0

C5_Witness ==
  /\ pc = "done"
  /\ Len(catalogLog) = 2
  /\ catalogLog[1].err
  /\ ~catalogLog[2].err
  /\ Delivered
  /\ exitCode = 5

\* C6: the catalog requests issued so far are one per configured server, in
\* configuration order; once the fetch loop is left every server has been
\* asked exactly once, whatever failed; failureCount counts the failed ones.
C6_EverySourceAsked ==
  /\ Len(catalogLog) <= Len(servers)
  /\ \A i \in 1..Len(catalogLog) : catalogLog[i].host = servers[i]
  /\ pc = "fetch" => Len(catalogLog) = hostIdx - 1
  /\ pc \notin {"fetch", "download"} => Len(catalogLog) = Len(servers)
  /\ failureCount = Cardinality({i \in 1..Len(catalogLog) : catalogLog[i].err})

C6_Witness ==
  /\ pc = "done"
  /\ Len(catalogLog) = 2
  /\ catalogLog[1].err
  /\ catalogLog[2].host = servers[2]
  /\ failureCount = 1

\* the files requested from server h, in the order of the requests
RECURSIVE FilesAsked(_, _)
FilesAsked(log, h) ==
  IF log = <<>> THEN <<>>
  ELSE (IF log[1].host = h THEN <<log[1].file>> ELSE <<>>) \o FilesAsked(Tail(log), h)

\* C7: for every server whose fetch has returned after a successful catalog
\* request, every listed file was requested exactly once, in order, whether
\* or not downloads failed; the server is counted as succeeded; the map is
\* the merge of all payloads downloaded so far (nothing is lost on a failure).
C7_FailedDownloadSkipped ==
  /\ \A i \in 1..Len(catalogLog) :
       (i < hostIdx /\ ~catalogLog[i].err) =>
         FilesAsked(downloads, servers[i]) = [j \in 1..catalogLog[i].count |-> j]
  /\ successCount =
       Cardinality({i \in 1..Len(catalogLog) : i < hostIdx /\ ~catalogLog[i].err})
  /\ \A d \in AllDomains : Lookup(data, d) = WellFormedSum(ingested, d)
  /\ Len(downloads) >= calls

C7_Witness ==
  /\ pc = "fetch"
  /\ Len(downloads) = 2
  /\ downloads[1].host = downloads[2].host
  /\ downloads[1].err
  /\ ~downloads[2].err
  /\ successCount = 1
  /\ data # NewData

\* C8: a run that attempts the delivery performs exactly one Dial and at most
\* one Stor; a failed upload is followed by no further delivery operation and
\* the run returns ExitUploadError = 4.
C8_DeliveryOnceNoRetry ==
  /\ Count(ftpLog, {"Dial", "DialFailed"}) = (IF ftpLog = <<>> THEN 0 ELSE 1)
  /\ pc = "cleanup" => ftpLog # <<>>
  /\ Count(ftpLog, {"Stor", "StorFailed"}) <= 1
  /\ UploadFailed => pc = "done" /\ exitCode = ExitUploadError /\ ExitUploadError = 4

C8_Witness ==
  /\ pc = "done"
  /\ exitCode = 4
  /\ Occurs(ftpLog, "LoginFailed")

\* C9 as stated: a finished run with at least one succeeded source and a
\* successful delivery returns 0.
C9_SuccessWithOneSource ==
  (pc = "done" /\ SomeSourceSucceeded /\ Delivered) => exitCode = ExitSuccess

\* C9 amended: a finished run with at least one succeeded source, no failed
\* source and a successful delivery returns 0.
C9_SuccessWithoutFailure ==
  (pc = "done" /\ SomeSourceSucceeded /\ ~SomeSourceFailed /\ Delivered) =>
    exitCode = ExitSuccess /\ ExitSuccess = 0

C9_Witness ==
  /\ pc = "done"
  /\ Len(catalogLog) = 2
  /\ ~SomeSourceFailed
  /\ Delivered
  /\ exitCode = 0

\* C10: once the fetch loop is left with a succeeded source, every domain's
\* count is the sum of its counts over the payloads of all servers, the
\* reported total is the sum of all counts and the reported top domain
\* carries the largest count; for the payloads A and B the snapshot is
\* [x.com:17, y.com:3, z.com:1], the total 21 and the top domain x.com.
C10_EndToEnd ==
  pc \in {"save", "upload", "cleanup"} \/ (pc = "done" /\ exitCode # ExitFetchError) =>
    /\ \A d \in AllDomains : Lookup(data, d) = WellFormedSum(ingested, d)
    /\ report.total_requests = WellFormedTotal(ingested)
    /\ report.unique_domains = Cardinality(DOMAIN data)
    /\ data # NewData =>
         /\ report.top_domain \in DOMAIN data
         /\ report.top_domain_hits = data[report.top_domain]
         /\ \A d \in DOMAIN data : data[d] <= report.top_domain_hits
         /\ stats[1].Count = report.top_domain_hits
    /\ ingested \in {PayloadA \o PayloadB, PayloadB \o PayloadA} =>
         /\ stats = <<[Domain |-> DomX, Count |-> 17], [Domain |-> DomY, Count |-> 3],
                      [Domain |-> DomZ, Count |-> 1]>>
         /\ report.total_requests = 21
         /\ report.top_domain = DomX

C10_Witness ==
  /\ pc = "done"
  /\ Len(downloads) = 2
  /\ downloads[1].host # downloads[2].host
  /\ ingested = PayloadA \o PayloadB
  /\ report.total_requests = 21
  /\ report.top_domain = DomX
  /\ Lookup(data, DomX) = 17

\* what re-ingesting the file into a fresh Merger and into the Merger d that
\* produced it must give
RoundTrip(file, d) ==
  LET fresh == AddContent(NewData, file).data
      again == AddContent(d, file).data
  IN /\ fresh = d
     /\ \A s1 \in GetSortedStats(fresh) : \A s2 \in GetSortedStats(d) :
          getTotalRequests(s1) = getTotalRequests(s2)
     /\ DOMAIN again = DOMAIN d
     /\ \A k \in DOMAIN d : again[k] = 2 * d[k]

\* C11: whenever SaveToFile has written a file, ingesting that text into a
\* fresh Merger reproduces the map (same counts, same total) and ingesting it
\* into the Merger that wrote it doubles every count.
C11_RoundTrip ==
  [][(artifact' # artifact /\ saved' = "nil") => RoundTrip(artifact', data')]_vars

C11_Witness ==
  /\ saved = "nil"
  /\ data = (DomA :> 17) @@ (DomB :> 5)
  /\ artifact = <<"a", "|", "1", "7", "\n", "b", "|", "5", "\n">>
  /\ AddContent(data, artifact).data = (DomA :> 34) @@ (DomB :> 10)

\* C15: a finished run whose delivery succeeded has called os.Remove exactly
\* once when the cleanup flag is set and never otherwise, and its exit code
\* depends on failureCount only, whether or not the file is gone.
C15_CleanupNonFatal ==
  /\ removes <= 1
  /\ removes = 1 => cleanupAfter /\ Delivered
  /\ (pc = "done" /\ Delivered) =>
       /\ removes = (IF cleanupAfter THEN 1 ELSE 0)
       /\ exitCode = (IF failureCount > 0 THEN ExitPartialError ELSE ExitSuccess)

C15_Witness ==
  /\ pc = "done"
  /\ cleanupAfter
  /\ removes = 1
  /\ artifact # NoFile
  /\ exitCode = ExitSuccess

\* C16: the file a successful SaveToFile wrote consists of one terminated
\* line `domain|count` per key of the map, each key once, every line a data
\* line, in the order of the snapshot, with non-increasing counts.
C16_ArtifactFormat ==
  (pc \in {"upload", "cleanup", "done"} /\ saved = "nil" /\ artifact # NoFile) =>
    LET lines  == ScanLines(artifact)
        fields == [i \in 1..Len(lines) |-> Split(lines[i], "|")]
        Field(i, k) == fields[i][k]
    IN /\ Len(lines) = Cardinality(DOMAIN data)
       /\ artifact = <<>> \/ artifact[Len(artifact)] = "\n"
       /\ \A i \in 1..Len(lines) :
            /\ Len(fields[i]) = 2
            /\ Field(i, 1) \in DOMAIN data
            /\ Field(i, 1) = stats[i].Domain
            /\ ~Atoi(Field(i, 2)).err
            /\ Atoi(Field(i, 2)).val = data[Field(i, 1)]
       /\ \A i, j \in 1..Len(lines) :
            i < j => /\ Field(i, 1) # Field(j, 1)
                     /\ Atoi(Field(i, 2)).val >= Atoi(Field(j, 2)).val

C16_Witness ==
  /\ pc = "upload"
  /\ saved = "nil"
  /\ artifact = DomX \o <<"|", "1", "7", "\n">> \o DomY \o <<"|", "3", "\n">>
                \o DomZ \o <<"|", "1", "\n">>

RECURSIVE SumOver(_, _)
\* the sum of f over the keys in S
SumOver(f, S) ==
  IF S = {} THEN 0
  ELSE LET k == CHOOSE k \in S : TRUE IN f[k] + SumOver(f, S \ {k})

\* C17: the map GetStats returned carries the sum of all counts as
\* total_requests and the head of its snapshot as top domain; for an empty
\* Merger it carries "N/A", 0 hits and total 0.
C17_GetStats ==
  pc = "save" =>
    /\ report.total_requests = SumOver(data, DOMAIN data)
    /\ report.unique_domains = Cardinality(DOMAIN data)
    /\ stats # <<>> =>
         /\ report.top_domain = stats[1].Domain
         /\ report.top_domain_hits = stats[1].Count
    /\ data = NewData =>
         /\ report.top_domain = <<"N", "/", "A">>
         /\ report.top_domain_hits = 0
         /\ report.total_requests = 0

C17_Witness ==
  /\ pc = "save"
  /\ successCount = 2
  /\ data = NewData
  /\ report.top_domain = <<"N", "/", "A">>
  /\ report.total_requests = 0

\* C20: a failed SaveToFile ends the run with ExitMergeError = 3 before any
\* delivery operation; a failed upload ends it with ExitUploadError = 4; both
\* whatever failureCount is; 0 and 5 are returned only after a successful
\* save and a successful delivery.
C20_SaveAndUploadPrecedence ==
  /\ saved = "error" =>
       pc = "done" /\ exitCode = ExitMergeError /\ ExitMergeError = 3 /\ ftpLog = <<>>
  /\ UploadFailed =>
       pc = "done" /\ exitCode = ExitUploadError /\ ExitUploadError = 4 /\ saved = "nil"
  /\ exitCode \in {ExitSuccess, ExitPartialError} => saved = "nil" /\ Delivered
  /\ exitCode \in {ExitMergeError, ExitUploadError} => SomeSourceSucceeded

C20_Witness ==
  /\ pc = "done"
  /\ failureCount = 1
  /\ successCount = 1
  /\ UploadFailed
  /\ exitCode = 4

Logged(msg) == \E i \in 1..Len(logs) : logs[i] = msg

\* verification requested by the configuration of an sftp client
VerificationRequested == client.transport = "sftp" /\ ~client.insecureSkipVerify

\* C12: with verification requested and known_hosts missing or not parsable,
\* a config getSSHConfig returns carries the trust-on-first-use callback and
\* the fallback warning has been logged; the line that announces known_hosts
\* verification is never logged.
C12_TofuFallbackReported ==
  (VerificationRequested /\ world.knownHosts # "ok") =>
    /\ ~Logged(DebugKnownHosts)
    /\ sshConfig.err = "nil" =>
         /\ sshConfig.HostKeyCallback = "trustOnFirstUse"
         /\ Logged(WarnFallback)

C12_Witness ==
  /\ upc = "dial"
  /\ ~client.insecureSkipVerify
  /\ world.knownHosts = "corrupt"
  /\ sshConfig.HostKeyCallback = "trustOnFirstUse"
  /\ Logged(WarnFallback)

\* C13: every verification by a trust-on-first-use callback fails exactly
\* when its key differs from the first key trust-on-first-use accepted in
\* this process.
C13_PinnedForProcess ==
  lastCheck.callback = "trustOnFirstUse" => (lastCheck.err <=> lastCheck.key # firstKey)

\* a private key that loadPrivateKey can turn into a signer is configured
KeyLoadable ==
  /\ client.keyPath # ""
  /\ \/ world.keyFile = "plain"
     \/ world.keyFile = "encrypted" /\ world.passphrase = "right"

\* C14: getSSHConfig offers the password first when there is one, the private
\* key after it when one is loadable, both when both are there, and it fails,
\* with the no-authentication-method error, exactly when there is neither.
C14_AuthSelection ==
  sshConfig # NoConfig =>
    /\ sshConfig.Auth = (IF client.password # "" THEN <<"password">> ELSE <<>>)
                        \o (IF KeyLoadable THEN <<"publickey">> ELSE <<>>)
    /\ sshConfig.err = "no authentication method available"
         <=> (client.password = "" /\ ~KeyLoadable)
    /\ sshConfig.err # "nil" =>
         /\ result = "failed to create SSH config"
         /\ remoteOps = <<>>

C14_Witness ==
  /\ sshConfig.Auth = <<"password", "publickey">>
  /\ world.keyFile = "encrypted"
  /\ sshConfig.err = "nil"
  /\ upc = "dial"

MkdirOps == {"MkdirAll", "MakeDir", "MakeDirFailed"}
WriteOps == {"Create", "CreateFailed", "Copy", "CopyFailed", "Stor", "StorFailed"}

\* C18: in every Upload call the write of the artifact comes after the
\* creation of the remote directory has been issued, and a directory that is
\* there already does not fail the call: sftp MkdirAll fails on it only with
\* the connection lost, and after a refused ftp MakeDir the STOR is issued
\* and alone decides the result.
C18_DirBeforeWrite ==
  /\ \A i \in 1..Len(remoteOps) :
       remoteOps[i] \in WriteOps => \E j \in 1..(i - 1) : remoteOps[j] \in MkdirOps
  /\ (session.dirBefore = "exists" /\ result = "failed to create remote directory")
       => lastCheck.err
  /\ \A i \in 1..Len(remoteOps) :
       remoteOps[i] = "MakeDirFailed" =>
         /\ i < Len(remoteOps)
         /\ remoteOps[i + 1] \in {"Stor", "StorFailed"}
         /\ result = (IF remoteOps[i + 1] = "Stor" THEN "nil" ELSE "ftp upload failed")

C18_Witness ==
  /\ client.transport = "sftp"
  /\ attempts = 2
  /\ session.dirBefore = "exists"
  /\ remoteOps = <<"Dial", "MkdirAll", "Create", "Copy">>
  /\ result = "nil"

\* C19, as stated: with verification requested, an Upload call that has
\* returned has failed whenever known_hosts is missing or unreadable, or has
\* no line for the host, or a line with another key than the one presented.
C19_StrictFailsWithoutStore ==
  (VerificationRequested /\ attempts > 0 /\ upc = "idle"
   /\ \/ world.knownHosts # "ok"
      \/ world.hostEntry = "absent"
      \/ lastCheck # NoCheck /\ lastCheck.key # world.hostEntry)
    => result # "nil"

\* C19, amended: with verification requested and a config returned, a
\* parsable known_hosts makes every key the file does not hold for the host
\* fail the Upload call; a missing or unparsable known_hosts installs trust
\* on first use, which accepts the first key the host presents.
C19_StrictVerification ==
  (VerificationRequested /\ sshConfig.err = "nil") =>
    /\ world.knownHosts = "ok" =>
         /\ sshConfig.HostKeyCallback = "known_hosts"
         /\ (lastCheck # NoCheck /\ lastCheck.key # world.hostEntry) =>
              /\ lastCheck.err
              /\ session.conn # "up"
              /\ result # "nil"
              /\ upc = "idle" => result # ""
    /\ world.knownHosts # "ok" =>
         /\ sshConfig.HostKeyCallback = "trustOnFirstUse"
         /\ (lastCheck # NoCheck /\ session.rekeys = 0) => ~lastCheck.err

C19_Witness ==
  /\ ~client.insecureSkipVerify
  /\ world.knownHosts = "ok"
  /\ world.hostEntry = "absent"
  /\ lastCheck.key = "K1"
  /\ lastCheck.err
  /\ result = "SSH connection failed"

\* the number of non-empty lines of a payload
NonEmptyLines(lines) == Cardinality({i \in 1..Len(lines) : lines[i].text # <<>>})

\* C23: AddContent returns nil for every payload, and the lines it accepted
\* and the lines it rejected add up to the non-empty lines of the payload.
C23_AddContentNeverFails ==
  fn = "AddContent" =>
    /\ ~out.err
    /\ out.linesProcessed + out.linesSkipped = NonEmptyLines(arg.lines)

ParseDomains == {DomA, DomB, DomUpperA}

CountKind(lines, kinds) == Cardinality({i \in 1..Len(lines) : lines[i].kind \in kinds})

\* C24: in a payload AddContent reads to its end an empty line counts
\* neither as accepted nor as rejected, a line with blanks around its fields
\* adds its count to the key without the blanks, and keys that differ in
\* case only are kept apart.
C24_LineParsing ==
  (fn = "AddContent" /\ ~out.err) =>
    /\ out.linesProcessed = CountKind(arg.lines, {"ok"})
    /\ out.linesSkipped = CountKind(arg.lines, {"fields", "noninteger"})
    /\ DOMAIN out.data \subseteq ParseDomains
    /\ \A d \in ParseDomains :
         /\ Lookup(out.data, d) = WellFormedSum(arg.lines, d)
         /\ d \in DOMAIN out.data <=>
              \E i \in 1..Len(arg.lines) :
                arg.lines[i].kind = "ok" /\ arg.lines[i].domain = d

C24_Witness ==
  /\ fn = "AddContent"
  /\ arg.lines = <<LineASpaced, LineEmpty, LineUpperA5>>
  /\ out.data = (DomA :> 5) @@ (DomUpperA :> 5)
  /\ out.linesProcessed = 2
  /\ out.linesSkipped = 0

\* C30: normalizeFTPHost appends ":21" to a host given without a port,
\* returns a host given with a port as it is, and returns its own results
\* as they are.
C30_NormalizeFTPHost ==
  fn = "normalizeFTPHost" =>
    /\ arg.port = <<>> => out = arg.text \o <<":", "2", "1">>
    /\ arg.port # <<>> => out = arg.text
    /\ normalizeFTPHost(out) = out

\* C22: every count of the map is non-negative, and so is the total of
\* every snapshot.
C22_NonNegativeCounts ==
  /\ \A d \in DOMAIN data : data[d] >= 0
  /\ \A s \in GetSortedStats(data) : getTotalRequests(s) >= 0

\* C29: the map of a Merger is what a fresh map becomes by the lines ingested
\* since New or the last Clear, whatever was ingested before; with nothing
\* ingested since, it holds no domain and its snapshot is empty.
C29_ClearForgets ==
  pc = "merger" =>
    /\ data = AddContent(NewData, JoinLines(Texts(ingested))).data
    /\ ingested = <<>> =>
         /\ data = NewData
         /\ GetSortedStats(data) = {<<>>}

\* a snapshot taken before the Clear shows that the Merger was not empty
C29_Witness ==
  /\ pc = "merger"
  /\ stats = <<[Domain |-> DomA, Count |-> 17]>>
  /\ calls = MaxCalls
  /\ ingested = <<>>
  /\ forgotten = 2
  /\ data = NewData

\* C25: a key pinned for the host stays pinned, to the same key, in every
\* step of the process.
C25_PinWrittenOnce ==
  [][(HostPort \in DOMAIN trustedKeys) =>
       (HostPort \in DOMAIN trustedKeys' /\ trustedKeys'[HostPort] = trustedKeys[HostPort])]_vars

\* C26: an sftp Upload call whose getSSHConfig failed has returned that
\* failure without a dial, a host key verification or a remote operation,
\* and whatever of these a call has done it did with a config in hand.
C26_TrustDecisionFirst ==
  client.transport = "sftp" =>
    /\ sshConfig.err \notin {"", "nil"} =>
         /\ upc = "idle"
         /\ result = "failed to create SSH config"
         /\ remoteOps = <<>>
         /\ lastCheck = NoCheck
         /\ session.conn = "none"
         /\ remote = session.dirBefore
    /\ (remoteOps # <<>> \/ lastCheck # NoCheck \/ session.conn # "none") =>
         /\ sshConfig.err = "nil"
         /\ sshConfig.Auth # <<>>
         /\ sshConfig.HostKeyCallback # ""

C26_Witness ==
  /\ client.transport = "sftp"
  /\ attempts = 1
  /\ sshConfig.err = "no authentication method available"
  /\ result = "failed to create SSH config"
  /\ remoteOps = <<>>

\* C27: the callback that accepts every host key is installed only for a
\* command line that sets insecure-skip-verify, never without the flag, and
\* with it the warning is logged; it accepts whatever key is presented.
C27_InsecureOnlyOnRequest ==
  client.transport = "sftp" =>
    /\ client.insecureFlag = "unset" => ~client.insecureSkipVerify
    /\ sshConfig.HostKeyCallback = "InsecureIgnoreHostKey" =>
         /\ client.insecureFlag = "true"
         /\ Logged(WarnDisabled)
    /\ lastCheck.callback = "InsecureIgnoreHostKey" => ~lastCheck.err

C27_Witness ==
  /\ client.insecureFlag = "true"
  /\ sshConfig.HostKeyCallback = "InsecureIgnoreHostKey"
  /\ Logged(WarnDisabled)
  /\ world.hostEntry = "K1"
  /\ lastCheck.key = "K2"
  /\ ~lastCheck.err
  /\ result = "nil"

\* C21: in every step of a run: once SaveToFile has been called no catalog
\* request, download or ingest follows; SaveToFile is called before any
\* delivery operation; delivery operations are performed after a successful
\* save and before the cleanup and the return; the cleanup and a return
\* other than the ones for a fetch or save failure follow the delivery.
C21_StageOrder ==
  [][/\ (saved # "") =>
          (catalogLog' = catalogLog /\ downloads' = downloads
           /\ ingested' = ingested /\ data' = data)
     /\ (saved' # saved) => (pc = "save" /\ ftpLog = <<>> /\ ftpLog' = <<>>)
     /\ (ftpLog' # ftpLog) => (saved = "nil" /\ removes = 0 /\ exitCode = Running)
     /\ (removes' # removes) => (ftpLog # <<>> /\ removes' = 1)
     /\ (exitCode' # exitCode /\ exitCode' \notin {ExitFetchError, ExitMergeError})
          => (saved = "nil" /\ ftpLog' # <<>>)
    ]_vars

C21_Witness ==
  /\ pc = "done"
  /\ Len(catalogLog) = 2
  /\ Len(downloads) = 3
  /\ calls = 3
  /\ saved = "nil"
  /\ Delivered
  /\ removes = 1
  /\ exitCode = ExitSuccess

\* the response of catalog request i failed one of the checks of
\* FetchLogFiles
CatalogFailed(i) ==
  LET r == catalogLog[i].resp
  IN r.transport # "ok" \/ r.code # StatusOK \/ ~r.json \/ ~r.status

\* C28: a catalog request fails exactly when the request fails, the HTTP
\* status is not 200, the body is no JSON or the JSON says status = false,
\* in which case the reason carries the message of the response; a failed
\* request returns no file, nothing is downloaded from its server, and it
\* is counted as a failed source.
C28_CatalogFailure ==
  /\ \A i \in 1..Len(catalogLog) :
       /\ catalogLog[i].err <=> CatalogFailed(i)
       /\ (catalogLog[i].resp.json /\ ~catalogLog[i].resp.status) =>
            /\ catalogLog[i].reason[1] = "API returned error"
            /\ catalogLog[i].reason[2] = catalogLog[i].resp.message
       /\ CatalogFailed(i) =>
            /\ catalogLog[i].count = 0
            /\ \A k \in 1..Len(downloads) : downloads[k].host # catalogLog[i].host
  /\ failureCount = Cardinality({i \in 1..Len(catalogLog) : CatalogFailed(i)})

C28_Witness ==
  /\ pc = "done"
  /\ Len(catalogLog) = 2
  /\ ~catalogLog[1].resp.status
  /\ catalogLog[1].resp.listed = 1
  /\ catalogLog[1].reason = <<"API returned error", "no logs for range">>
  /\ catalogLog[1].count = 0
  /\ failureCount = 1
  /\ exitCode = ExitPartialError

\* the value a setting has by the priority flag, environment variable,
\* config file, default
ByPriority(flagArg, env, ini, k, default) ==
  IF flagArg.given THEN flagArg.value
  ELSE IF env # <<>> THEN env
  ELSE IF ini.loaded /\ IniValue(ini, k) # <<>> THEN IniValue(ini, k)
  ELSE default

\* C31: Load resolves the password and the API port by the priority
\* flag > environment variable > config file > default (the port has no
\* environment variable).
C31_ConfigPriority ==
  fn = "Load" =>
    /\ out.FTPPassword = ByPriority(arg.flagPassword, arg.env, arg.ini, "ftppassword", <<>>)
    /\ out.GIHAPIPort = ByPriority(arg.flagPort, <<>>, arg.ini, "gihapiport", DefaultGIHAPIPort)

\* the fetch loop of run() has ended
FetchLoopEnded == pc # "download" /\ hostIdx > Len(servers)

\* the servers whose catalog request returned without error
CatalogSucceeded == {i \in 1..Len(catalogLog) : ~catalogLog[i].err}

MergeFailed == {k \in 1..Len(downloads) : downloads[k].mergeErr}

\* C33: when AddContent returns a read error for a payload, the counts of
\* the lines before the over-long one stay in the map and the lines after it
\* are not merged; the download loop goes on with the next listed file and
\* the server is counted as succeeded.
C33_NoRollback ==
  /\ MergeFailed # {} =>
       \A d \in AllDomains : Lookup(data, d) = WellFormedSum(ingested, d)
  /\ \A k \in MergeFailed :
       /\ Lookup(data, DomX) >= 10
       /\ Len(downloads) = k =>
            /\ Len(ingested) >= 1
            /\ ingested[Len(ingested)] = LineX10
       /\ (Len(downloads) = 1) => data = [d \in {DomX} |-> 10]
       /\ \A i \in 1..Len(catalogLog) :
            catalogLog[i].host = downloads[k].host =>
              /\ ~catalogLog[i].err
              /\ i < hostIdx =>
                   FilesAsked(downloads, servers[i]) = [j \in 1..catalogLog[i].count |-> j]
  /\ successCount =
       Cardinality({i \in 1..Len(catalogLog) : i < hostIdx /\ ~catalogLog[i].err})

C33_Witness ==
  /\ pc = "done"
  /\ Len(servers) = 1
  /\ Len(downloads) = 2
  /\ downloads[1].mergeErr
  /\ ~downloads[2].err
  /\ ~downloads[2].mergeErr
  /\ data = (DomX :> 17) @@ (DomZ :> 1)
  /\ successCount = 1
  /\ failureCount = 0
  /\ exitCode = ExitSuccess

\* C34: in every step of a run, os.Remove is called and the written file
\* disappears only in a run with the cleanup flag set whose delivery
\* succeeded; after the step nothing was removed if the run has returned
\* ExitFetchError, ExitMergeError or ExitUploadError or the flag is unset.
C34_DeleteOnlyAfterDelivery ==
  [][/\ (removes' # removes) => (cleanupAfter /\ Delivered /\ saved = "nil")
     /\ (artifact # NoFile /\ artifact' = NoFile) =>
          (cleanupAfter /\ Delivered /\ removes' = removes + 1)
     /\ (exitCode' \in {ExitFetchError, ExitMergeError, ExitUploadError}
         \/ ~cleanupAfter') => (removes' = 0)
    ]_vars

\* a failed delivery and a delivery without the flag both leave the file
C34_Witness ==
  /\ pc = "done"
  /\ cleanupAfter
  /\ exitCode = ExitUploadError
  /\ saved = "nil"
  /\ artifact # NoFile
  /\ artifact # <<>>
  /\ removes = 0

\* the positions of the operations of a kind in a log of ftp operations
Positions(log, kinds) == {k \in 1..Len(log) : log[k] \in kinds}

\* C35: the operations of the ftp Upload of a run are a connect, then a
\* login, then the MakeDir, then the Stor; after a failed connect there is no
\* other operation, after a failed login no MakeDir and no Stor, and after a
\* successful connect there is exactly one Quit, as the last operation.
C35_FtpOrder ==
  ftpLog # <<>> =>
    /\ ftpLog[1] \in {"Dial", "DialFailed"}
    /\ Positions(ftpLog, {"Dial", "DialFailed"}) = {1}
    /\ ftpLog[1] = "DialFailed" => ftpLog = <<"DialFailed">>
    /\ Positions(ftpLog, {"Login", "LoginFailed"}) = (IF ftpLog[1] = "Dial" THEN {2} ELSE {})
    /\ \A i \in Positions(ftpLog, {"MakeDir", "MakeDirFailed"}) :
         /\ \E j \in Positions(ftpLog, {"Login"}) : j < i
         /\ \E j \in Positions(ftpLog, {"Stor", "StorFailed"}) : i < j
    /\ \A j \in Positions(ftpLog, {"Stor", "StorFailed"}) :
         \E i \in Positions(ftpLog, {"MakeDir", "MakeDirFailed"}) : i < j
    /\ Cardinality(Positions(ftpLog, {"MakeDir", "MakeDirFailed"})) <= 1
    /\ Cardinality(Positions(ftpLog, {"Stor", "StorFailed"})) <= 1
    /\ Occurs(ftpLog, "LoginFailed") =>
         Positions(ftpLog, {"MakeDir", "MakeDirFailed", "Stor", "StorFailed"}) = {}
    /\ ftpLog[1] = "Dial" => Positions(ftpLog, {"Quit"}) = {Len(ftpLog)}

\* an upload whose login is refused: the connection is closed, nothing else
C35_Witness ==
  /\ pc = "done"
  /\ ftpLog = <<"Dial", "LoginFailed", "Quit">>
  /\ exitCode = ExitUploadError

\* a private key is configured and loadPrivateKey cannot read or parse it
KeyUnusable == client.keyPath # "" /\ ~KeyLoadable

\* C36: getSSHConfig fails exactly when neither a password nor a loadable
\* key is there; with a configured key that cannot be read or parsed it
\* logs the warning and succeeds offering only the password when there is
\* one, and fails when the password is empty.
C36_KeyFailureTolerated ==
  sshConfig # NoConfig =>
    /\ (sshConfig.err # "nil") <=> (client.password = "" /\ ~KeyLoadable)
    /\ KeyUnusable =>
         /\ Logged(WarnKey)
         /\ client.password # "" =>
              /\ sshConfig.err = "nil"
              /\ sshConfig.Auth = <<"password">>
         /\ client.password = "" =>
              /\ sshConfig.err = "no authentication method available"
              /\ result = "failed to create SSH config"
              /\ upc = "idle"

C36_Witness ==
  /\ client.password # ""
  /\ client.keyPath # ""
  /\ world.keyFile = "encrypted"
  /\ world.passphrase = "wrong"
  /\ sshConfig.err = "nil"
  /\ sshConfig.Auth = <<"password">>
  /\ result = ""
  /\ upc = "dial"

RECURSIVE DaysBefore(_, _)
\* the date k days before the date c, by stepping back one day at a time
DaysBefore(c, k) ==
  IF k = 0 THEN c
  ELSE DaysBefore(IF c.d > 1 THEN [c EXCEPT !.d = c.d - 1]
                  ELSE IF c.m > 1
                  THEN [y |-> c.y, m |-> c.m - 1, d |-> DaysIn(c.y, c.m - 1)]
                  ELSE [y |-> c.y - 1, m |-> 12, d |-> 31],
                  k - 1)

\* the range of n days that ends the day before the date of now
RangeEndingYesterday(now, n) ==
  [startDate |-> Format(DaysBefore(now, n)), endDate |-> Format(DaysBefore(now, 1))]

\* C37: at every current time getLastWeekRange, GetLastWeekDates and
\* GetDateRange(7) return the 7 days that end yesterday, GetDateRange(n) for
\* n >= 1 the n days that end yesterday, and GetDateRange(n) for n <= 0 what
\* GetDateRange(7) returns.
C37_DateRange ==
  fn = "DateRange" =>
    /\ out.getLastWeekRange = RangeEndingYesterday(arg.now, 7)
    /\ out.GetLastWeekDates = RangeEndingYesterday(arg.now, 7)
    /\ out.GetDateRange7 = RangeEndingYesterday(arg.now, 7)
    /\ arg.daysBack >= 1 => out.GetDateRange = RangeEndingYesterday(arg.now, arg.daysBack)
    /\ arg.daysBack <= 0 => out.GetDateRange = out.GetDateRange7

====
